---- MODULE Spec2Model ----
(***************************************************************************)
(* Redis rate limiters of go-redis-limiter: the three Lua admission        *)
(* scripts (token bucket, leaky bucket, sliding-window log), the Go        *)
(* AllowN methods that invoke them, and the key expiry of the store.       *)
(*                                                                         *)
(* Numbers.  The scripts compute in Lua doubles.  The model keeps every    *)
(* token count and water level as an integer number of 1/Scale units       *)
(* (Scale = 1000, the divisor of the scripts' "delta * rate / 1000"), and  *)
(* takes Rate, LeakRate and Capacity as whole numbers, so that a refill of *)
(* delta ms is exactly delta * rate units and no rounding happens.         *)
(* Timestamps and TTLs are integer milliseconds, as in the code.           *)
(* A value written with SET and read back with GET/tonumber is the same    *)
(* number (the store formats a Lua number with 17 significant digits).     *)
(***************************************************************************)
EXTENDS Integers, Sequences, FiniteSets

VARIABLES
    clock,   \* the store's time in ms: decides key expiry
    lim,     \* the limiter built by the constructor (immutable configuration)
    store,   \* the store keys of the limiter: name -> [present, val, exp]
    last,    \* the most recent AllowN call: arguments, verdict, store before it
    calls,   \* the verdicts of the calls made so far (clock-driven caller)
    pc,      \* position of each concurrent caller, or of the one Wait call
    arg,     \* the `now` each concurrent caller sampled, or the locals of Wait
    res      \* the verdict each concurrent caller received, or what Wait returned

vars == <<clock, lim, store, last, calls, pc, arg, res>>

---------------------------------------------------------------------------
(* Bounds of the model. *)

MaxClock == 3
MaxNow == 3
MaxCapacity == 2
MaxTTL == 2
MaxN == 2
MaxCalls == 5
MaxCallers == 3

(* The divisor of "delta * rate / 1000": units per token, ms per second. *)
Scale == 1000

Rates == {250, 500, 1000}
Capacities == 1..MaxCapacity
TTLs == 1..MaxTTL
Windows == {1, 2, 3}
Nows == 0..MaxNow
Ns == 0..MaxN

---------------------------------------------------------------------------
(* Constructors: the configuration a limiter is built with. *)

NewTokenBucketLimiter(rate, capacity, ttl) ==
    [Type |-> "token_bucket", Rate |-> rate, Capacity |-> capacity, TTL |-> ttl]

NewLeakyBucketLimiter(leakRate, capacity, ttl) ==
    [Type |-> "leaky_bucket", LeakRate |-> leakRate, Capacity |-> capacity, TTL |-> ttl]

NewSlidingWindowLimiter(window, limit, ttl) ==
    [Type |-> "sliding_window", Window |-> window, Limit |-> limit, TTL |-> ttl]

TokenBuckets ==
    {NewTokenBucketLimiter(r, c, t) : r \in Rates, c \in Capacities, t \in TTLs}

LeakyBuckets ==
    {NewLeakyBucketLimiter(r, c, t) : r \in Rates, c \in Capacities, t \in TTLs}

SlidingWindows ==
    {NewSlidingWindowLimiter(w, l, t) : w \in Windows, l \in Capacities, t \in TTLs}

---------------------------------------------------------------------------
(* The store: string keys and one sorted set, each with an expiry time. *)

KeysOf(l) ==
    IF l.Type \in {"token_bucket", "sharded_token"} THEN {"tokens", "ts"}
    ELSE IF l.Type \in {"leaky_bucket", "sharded_leaky"} THEN {"bucket", "ts"}
    ELSE {"log", "seq"}

Absent(k) ==
    IF k = "log" THEN [present |-> FALSE, val |-> {}, exp |-> 0]
    ELSE [present |-> FALSE, val |-> 0, exp |-> 0]

EmptyStore(l) == [k \in KeysOf(l) |-> Absent(k)]

Entry(v, e) == [present |-> TRUE, val |-> v, exp |-> e]

(* tonumber(redis.call("GET", key)) or default *)
GetOr(st, k, default) == IF st[k].present THEN st[k].val ELSE default

(* redis.call("SET", key, value, "PX", ttl) at store time clk *)
SetPX(st, k, v, clk, ttl) == [st EXCEPT ![k] = Entry(v, clk + ttl)]

(* The store at time clk: a key lives while clk <= its expiry time. *)
Expired(st, clk) ==
    [k \in DOMAIN st |-> IF st[k].present /\ st[k].exp < clk THEN Absent(k) ELSE st[k]]

---------------------------------------------------------------------------
(* tokenBucketScript: KEYS = tokens, ts; ARGV = now, rate, capacity, req, ttl. *)

(* a variant without the clamp at 0: a `now` before lastTs takes tokens away *)
TbDeltaSigned(now, lastTs) == now - lastTs

(* delta = now - lastTs, clamped at 0 *)
TbDelta(now, lastTs) == IF now - lastTs < 0 THEN 0 ELSE now - lastTs

(* a variant that refills at half the rate *)
TbRefillHalf(delta, rate) == (delta * rate) \div 2

(* a variant that refills twice as fast *)
TbRefillTwice(delta, rate) == 2 * delta * rate

(* refill = (delta * rate) / 1000 tokens, in 1/Scale units *)
TbRefill(delta, rate) == delta * rate

(* a variant without the capacity clamp *)
TbClampKeep(tokens, capacity) == tokens

(* if tokens > capacity then tokens = capacity end *)
TbClamp(tokens, capacity) == IF tokens > capacity THEN capacity ELSE tokens

(* a variant that admits on any positive balance *)
TbEnoughOrZero(tokens, req) == tokens > 0

(* the script goes on to consume unless tokens < req *)
TbEnough(tokens, req) == ~(tokens < req)

TbRefilled(st, now, rate, capacity) ==
    LET tokens == GetOr(st, "tokens", capacity)
        lastTs == GetOr(st, "ts", now)
    IN  TbClamp(tokens + TbRefill(TbDelta(now, lastTs), rate), capacity)

(* a variant that writes both keys back on every call, admitted or not *)
TokenBucketScriptWriteBack(st, clk, now, rate, capacity, req, ttl) ==
    LET tokens == TbRefilled(st, now, rate, capacity)
        left   == IF TbEnough(tokens, req) THEN tokens - req ELSE tokens
    IN  [res |-> IF TbEnough(tokens, req) THEN 1 ELSE 0,
         store |-> SetPX(SetPX(st, "tokens", left, clk, ttl), "ts", now, clk, ttl)]

(* a variant that decides on a full bucket instead of the stored count *)
TokenBucketScriptStale(st, clk, now, rate, capacity, req, ttl) ==
    LET tokens == capacity
    IN  IF ~TbEnough(tokens, req)
        THEN [res |-> 0, store |-> st]
        ELSE [res |-> 1,
              store |-> SetPX(SetPX(st, "tokens", tokens - req, clk, ttl),
                              "ts", now, clk, ttl)]

TokenBucketScript(st, clk, now, rate, capacity, req, ttl) ==
    LET tokens == TbRefilled(st, now, rate, capacity)
    IN  IF ~TbEnough(tokens, req)
        THEN [res |-> 0, store |-> st]
        ELSE [res |-> 1,
              store |-> SetPX(SetPX(st, "tokens", tokens - req, clk, ttl),
                              "ts", now, clk, ttl)]

---------------------------------------------------------------------------
(* leakyBucketScript: KEYS = bucket, ts; ARGV = now, leakRate, capacity, req, ttl. *)

LbDelta(now, lastTs) == IF now - lastTs < 0 THEN 0 ELSE now - lastTs

(* a variant that leaks by whole elapsed seconds only *)
LbLeakPerSecond(delta, leakRate) == (delta \div Scale) * leakRate * Scale

(* leak = (delta * leakRate) / 1000, in 1/Scale units *)
LbLeak(delta, leakRate) == delta * leakRate

(* level = level - leak; if level < 0 then level = 0 end *)
LbDrain(level, leak) == IF level - leak < 0 THEN 0 ELSE level - leak

(* a variant that already refuses a request filling the bucket to the brim *)
LbOverflowAtBrim(level, req, capacity) == level + req >= capacity

(* if level + req > capacity then return 0 end *)
LbOverflow(level, req, capacity) == level + req > capacity

LbDrained(st, now, leakRate) ==
    LET level == GetOr(st, "bucket", 0)
        lastTs == GetOr(st, "ts", now)
    IN  LbDrain(level, LbLeak(LbDelta(now, lastTs), leakRate))

LeakyBucketScript(st, clk, now, leakRate, capacity, req, ttl) ==
    LET level == LbDrained(st, now, leakRate)
    IN  IF LbOverflow(level, req, capacity)
        THEN [res |-> 0, store |-> st]
        ELSE [res |-> 1,
              store |-> SetPX(SetPX(st, "bucket", level + req, clk, ttl),
                              "ts", now, clk, ttl)]

---------------------------------------------------------------------------
(* slidingWindowScript: KEYS = log, seq; ARGV = now, window, limit, ttl.    *)
(* The log is a sorted set of [score, member]; a member "<now>-<seq>" is    *)
(* the pair <<now, seq>>.                                                   *)

MaxSeq == 3
(* a variant whose range leaves out its upper end *)
ZRemRangeBelowScore(st, lo, hi) ==
    LET kept == {e \in st["log"].val : ~(lo <= e.score /\ e.score < hi)}
    IN  IF ~st["log"].present THEN st
        ELSE IF kept = {} THEN [st EXCEPT !["log"] = Absent("log")]
        ELSE [st EXCEPT !["log"].val = kept]

(* redis.call("ZREMRANGEBYSCORE", logKey, 0, minScore): both ends inclusive; *)
(* a sorted set left empty is deleted.                                       *)
ZRemRangeByScore(st, lo, hi) ==
    LET kept == {e \in st["log"].val : ~(lo <= e.score /\ e.score <= hi)}
    IN  IF ~st["log"].present THEN st
        ELSE IF kept = {} THEN [st EXCEPT !["log"] = Absent("log")]
        ELSE [st EXCEPT !["log"].val = kept]

(* redis.call("ZCARD", logKey) *)
ZCard(st) == Cardinality(st["log"].val)

(* a variant whose counter starts again at 1 on every call *)
IncrFromOne(st, clk) == [st EXCEPT !["seq"] = Entry(1, clk)]

(* redis.call("INCR", seqKey): a new key holds 1 and has no expiry yet; an *)
(* existing key keeps its expiry.                                          *)
Incr(st, clk) ==
    IF st["seq"].present
    THEN [st EXCEPT !["seq"].val = @ + 1]
    ELSE [st EXCEPT !["seq"] = Entry(1, clk)]

(* redis.call("ZADD", logKey, score, member): a member already present gets *)
(* the new score.                                                           *)
ZAdd(st, score, member, clk) ==
    LET others == {e \in st["log"].val : e.member # member}
        added  == others \cup {[score |-> score, member |-> member]}
    IN  IF st["log"].present
        THEN [st EXCEPT !["log"].val = added]
        ELSE [st EXCEPT !["log"] = Entry(added, clk)]

(* redis.call("PEXPIRE", key, ttl): a ttl that is not positive deletes the key *)
PExpire(st, k, clk, ttl) ==
    IF ~st[k].present THEN st
    ELSE IF ttl <= 0 THEN [st EXCEPT ![k] = Absent(k)]
    ELSE [st EXCEPT ![k].exp = clk + ttl]

(* a variant whose purge reaches one ms into the window *)
SwPurgedEarly(st, now, window) == ZRemRangeByScore(st, 0, now - window + 1)

(* local minScore = now - window; ZREMRANGEBYSCORE logKey 0 minScore *)
SwPurged(st, now, window) == ZRemRangeByScore(st, 0, now - window)

(* a variant that lets one request too many through *)
SwFullAbove(count, limit) == count > limit

(* if count >= limit then return 0 end *)
SwFull(count, limit) == count >= limit

(* a variant that counts the log before purging it *)
SlidingWindowScriptCountFirst(st, clk, now, window, limit, ttl) ==
    LET purged == SwPurged(st, now, window)
        count  == ZCard(st)
        incred == Incr(purged, clk)
        member == <<now, incred["seq"].val>>
        added  == ZAdd(incred, now, member, clk)
    IN  IF SwFull(count, limit)
        THEN [res |-> 0, store |-> purged]
        ELSE [res |-> 1,
              store |-> PExpire(PExpire(added, "log", clk, ttl), "seq", clk, ttl)]

SlidingWindowScript(st, clk, now, window, limit, ttl) ==
    LET purged == SwPurged(st, now, window)
        count  == ZCard(purged)
        incred == Incr(purged, clk)
        member == <<now, incred["seq"].val>>
        added  == ZAdd(incred, now, member, clk)
    IN  IF SwFull(count, limit)
        THEN [res |-> 0, store |-> purged]
        ELSE [res |-> 1,
              store |-> PExpire(PExpire(added, "log", clk, ttl), "seq", clk, ttl)]

---------------------------------------------------------------------------
(* The Go methods: validate n, read the clock, run the script, decode. *)

(* tb.Capacity / l.Capacity as the script receives it, in 1/Scale units: a    *)
(* whole number of tokens on a limiter of the bounded sets above, the stored *)
(* quotient on a shard, whose capacity need not be a whole number.           *)
CapacityUnits(l) ==
    IF "CapacityUnits" \in DOMAIN l THEN l.CapacityUnits ELSE l.Capacity * Scale

Verdict(r) == [ok |-> r.res = 1, err |-> FALSE, store |-> r.store]

Refused(st) == [ok |-> FALSE, err |-> TRUE, store |-> st]

TokenBucketAllowN(l, st, clk, n, now) ==
    IF n <= 0 THEN Refused(st)
    ELSE Verdict(TokenBucketScript(st, clk, now, l.Rate,
                                   CapacityUnits(l), n * Scale, l.TTL))

LeakyBucketAllowN(l, st, clk, n, now) ==
    IF n <= 0 THEN Refused(st)
    ELSE Verdict(LeakyBucketScript(st, clk, now, l.LeakRate,
                                   CapacityUnits(l), n * Scale, l.TTL))

SlidingWindowAllowN(l, st, clk, n, now) ==
    IF n # 1 THEN Refused(st)
    ELSE Verdict(SlidingWindowScript(st, clk, now, l.Window, l.Limit, l.TTL))

(* a variant of Allow that asks for two permits *)
TokenBucketAllowTwo(l, st, clk, now) == TokenBucketAllowN(l, st, clk, 2, now)

(* Allow: return AllowN(ctx, 1) *)
TokenBucketAllow(l, st, clk, now) == TokenBucketAllowN(l, st, clk, 1, now)

LeakyBucketAllow(l, st, clk, now) == LeakyBucketAllowN(l, st, clk, 1, now)

SlidingWindowAllow(l, st, clk, now) == SlidingWindowAllowN(l, st, clk, 1, now)

---------------------------------------------------------------------------
(* One caller whose `now` argument is arbitrary (any clock, any skew).      *)
(* Spec: a token bucket or a leaky bucket.  SpecWindow: a sliding window.   *)

NoCall == [op |-> "none"]

Called(n, now, r, before) ==
    [op |-> "AllowN", n |-> n, now |-> now, ok |-> r.ok, err |-> r.err, pre |-> before]

Idle ==
    /\ clock = 0
    /\ store = EmptyStore(lim)
    /\ last = NoCall
    /\ calls = <<>>
    /\ pc = <<>>
    /\ arg = <<>>
    /\ res = <<>>

Init ==
    /\ lim \in TokenBuckets \cup LeakyBuckets
    /\ Idle

InitWindow ==
    /\ lim \in SlidingWindows
    /\ Idle

TbAllowN(n, now) ==
    /\ lim.Type = "token_bucket"
    /\ LET r == TokenBucketAllowN(lim, store, clock, n, now)
       IN  /\ store' = r.store
           /\ last' = Called(n, now, r, store)
    /\ UNCHANGED <<clock, lim, calls, pc, arg, res>>

LbAllowN(n, now) ==
    /\ lim.Type = "leaky_bucket"
    /\ LET r == LeakyBucketAllowN(lim, store, clock, n, now)
       IN  /\ store' = r.store
           /\ last' = Called(n, now, r, store)
    /\ UNCHANGED <<clock, lim, calls, pc, arg, res>>

SwAllowN(n, now) ==
    /\ lim.Type = "sliding_window"
    /\ GetOr(store, "seq", 0) < MaxSeq
    /\ LET r == SlidingWindowAllowN(lim, store, clock, n, now)
       IN  /\ store' = r.store
           /\ last' = Called(n, now, r, store)
    /\ UNCHANGED <<clock, lim, calls, pc, arg, res>>

(* Time passes at the store: keys past their expiry time are gone. *)
Tick ==
    /\ clock < MaxClock
    /\ clock' = clock + 1
    /\ store' = Expired(store, clock + 1)
    /\ last' = NoCall
    /\ UNCHANGED <<lim, calls, pc, arg, res>>

Next ==
    \/ \E n \in Ns, now \in Nows : TbAllowN(n, now)
    \/ \E n \in Ns, now \in Nows : LbAllowN(n, now)
    \/ Tick

Spec == Init /\ [][Next]_vars

NextWindow ==
    \/ \E n \in Ns, now \in Nows : SwAllowN(n, now)
    \/ Tick

SpecWindow == InitWindow /\ [][NextWindow]_vars

---------------------------------------------------------------------------
(* Properties of the scripts under arbitrary `now` arguments. *)

IsToken == lim.Type = "token_bucket"
IsLeaky == lim.Type = "leaky_bucket"
IsWindow == lim.Type = "sliding_window"

(* The last step was an AllowN call that ran its script. *)
Ran == last.op = "AllowN" /\ ~last.err
Admitted == Ran /\ last.ok
Denied == Ran /\ ~last.ok

Max(a, b) == IF a >= b THEN a ELSE b

(* C1: token bucket: whenever the tokens key exists, the stored count is *)
(* within 0..Capacity, whatever `now` arguments the calls carried.       *)
C1_TokensInRange ==
    (IsToken /\ store["tokens"].present) =>
        (0 <= store["tokens"].val /\ store["tokens"].val <= lim.Capacity * Scale)

(* An admitted call whose `now` lies before the stored ts. *)
C1_Witness ==
    /\ IsToken /\ Admitted
    /\ last.pre["ts"].present /\ last.now < last.pre["ts"].val
    /\ store["tokens"].present /\ store["tokens"].val < lim.Capacity * Scale

(* C2: leaky bucket: a call is admitted exactly when the drained level   *)
(* max(0, level - max(0, now - lastTs) * LeakRate / 1000) plus n is at   *)
(* most Capacity, and a stored level is always within 0..Capacity.       *)
C2_LeakyAdmitIff ==
    IsLeaky =>
        /\ store["bucket"].present =>
              (0 <= store["bucket"].val /\ store["bucket"].val <= lim.Capacity * Scale)
        /\ Ran =>
              LET level  == IF last.pre["bucket"].present THEN last.pre["bucket"].val ELSE 0
                  lastTs == IF last.pre["ts"].present THEN last.pre["ts"].val ELSE last.now
                  now    == last.now
              IN  last.ok <=>
                    (Max(0, level - Max(0, now - lastTs) * lim.LeakRate) + last.n * Scale
                        <= lim.Capacity * Scale)

(* A call on a part-drained bucket: time has passed since ts and the level *)
(* before the call was not yet back at zero.                               *)
C2_Witness ==
    /\ IsLeaky /\ Ran
    /\ last.pre["bucket"].present
    /\ last.now > last.pre["ts"].val
    /\ last.pre["bucket"].val > (last.now - last.pre["ts"].val) * lim.LeakRate

(* C3: sliding window: the log never holds more than Limit entries, and   *)
(* after an admitted call at most Limit entries have score >= now-Window. *)
C3_LogWithinLimit ==
    IsWindow =>
        /\ Cardinality(store["log"].val) <= lim.Limit
        /\ Admitted =>
              Cardinality({e \in store["log"].val : e.score >= last.now - lim.Window})
                  <= lim.Limit

(* An admission that fills the log of a limiter with Limit > 1. *)
C3_Witness ==
    /\ IsWindow /\ Admitted
    /\ lim.Limit > 1
    /\ Cardinality(store["log"].val) = lim.Limit

(* C4: token and leaky bucket: a denied AllowN leaves both keys as they *)
(* were: same values, same expiry times (the store's clock is the same, *)
(* so the same remaining TTL).                                          *)
C4_DenialWritesNothing ==
    Denied => store = last.pre

(* A denial while both keys exist with less than a full TTL left. *)
C4_Witness ==
    /\ IsToken /\ Denied
    /\ store["tokens"].present /\ store["ts"].present
    /\ store["tokens"].exp < clock + lim.TTL
    /\ last.now > store["ts"].val

(* C5: sliding window: a denied Allow leaves the log's members and the  *)
(* seq counter unchanged; the purge before the decision removed nothing. *)
C5_DeniedAllowKeepsLog ==
    (IsWindow /\ Denied) =>
        /\ store["log"].val = last.pre["log"].val
        /\ store["seq"] = last.pre["seq"]
        /\ SwPurged(last.pre, last.now, lim.Window) = last.pre

(* A denial whose purge range [0, now - Window] is not empty, TTL partly used. *)
C5_Witness ==
    /\ IsWindow /\ Denied
    /\ last.now - lim.Window >= 0
    /\ store["log"].exp < clock + lim.TTL

(* C6: token bucket: the stored ts never decreases from one call to the *)
(* next, also when a call's `now` is smaller than the stored ts.        *)
C6_TsMonotonic ==
    (IsToken /\ Ran /\ last.pre["ts"].present /\ store["ts"].present) =>
        store["ts"].val >= last.pre["ts"].val

---------------------------------------------------------------------------
(* SpecConc: callers that invoke Allow on one token-bucket key at the same *)
(* `now`.  A caller reads the clock and sends the script (Invoke); the     *)
(* store runs the script of any request in flight as one step (RunScript). *)
(* Before the callers start, earlier sequential Allow calls and the passage *)
(* of time leave the bucket with some number of tokens.                     *)

Callers == 1..MaxCallers

Started == last.op = "start"

InitConc ==
    /\ clock = 0
    /\ lim \in TokenBuckets
    /\ store = EmptyStore(lim)
    /\ last = NoCall
    /\ calls = <<>>
    /\ pc = [c \in Callers |-> "idle"]
    /\ arg = [c \in Callers |-> 0]
    /\ res = [c \in Callers |-> FALSE]

(* An Allow of an earlier caller, complete before the concurrent ones begin. *)
Earlier ==
    /\ ~Started
    /\ store' = TokenBucketAllowN(lim, store, clock, 1, clock).store
    /\ UNCHANGED <<clock, lim, last, calls, pc, arg, res>>

(* nowMs := time.Now(): the first caller fixes the instant all of them use. *)
Invoke(c) ==
    /\ pc[c] = "idle"
    /\ last' = IF Started THEN last
               ELSE [op |-> "start", now |-> clock, pre |-> store, expired |-> FALSE]
    /\ arg' = [arg EXCEPT ![c] = last'.now]
    /\ pc' = [pc EXCEPT ![c] = "flying"]
    /\ UNCHANGED <<clock, lim, store, calls, res>>

(* tokenBucketScript.Run(...).Result(): the script runs at the store, whole. *)
RunScript(c) ==
    /\ pc[c] = "flying"
    /\ LET r == TokenBucketAllowN(lim, store, clock, 1, arg[c])
       IN  /\ store' = r.store
           /\ res' = [res EXCEPT ![c] = r.ok]
    /\ pc' = [pc EXCEPT ![c] = "done"]
    /\ UNCHANGED <<clock, lim, last, calls, arg>>

(* Time passes at the store; `expired` notes a key lost after the start. *)
TickConc ==
    /\ clock < MaxClock
    /\ clock' = clock + 1
    /\ store' = Expired(store, clock + 1)
    /\ last' = IF Started /\ store' # store THEN [last EXCEPT !.expired = TRUE] ELSE last
    /\ UNCHANGED <<lim, calls, pc, arg, res>>

NextConc ==
    \/ Earlier
    \/ \E c \in Callers : Invoke(c)
    \/ \E c \in Callers : RunScript(c)
    \/ TickConc

SpecConc == InitConc /\ [][NextConc]_vars

Min(a, b) == IF a <= b THEN a ELSE b

(* No request is in flight and K >= 1 callers have their verdict. *)
Quiet == Started /\ \A c \in Callers : pc[c] # "flying"
Finished == {c \in Callers : pc[c] = "done"}
Winners == {c \in Finished : res[c]}

(* The whole tokens the bucket held for the callers' `now` when they began. *)
HeldAtStart == TbRefilled(last.pre, last.now, lim.Rate, lim.Capacity * Scale) \div Scale

(* C7 as stated: of K callers invoking Allow concurrently with one `now` *)
(* on a bucket holding T whole tokens, exactly min(K, T) are admitted.   *)
C7_ExactlyMinAdmitted ==
    (Quiet /\ Finished # {}) =>
        Cardinality(Winners) = Min(Cardinality(Finished), HeldAtStart)

(* C7 (amended): the same, provided no key of the bucket expired at the *)
(* store after the callers began; each admitted caller then took one    *)
(* token of its own from the stored count.                              *)
C7_ExactlyMinAdmittedUnexpired ==
    (Quiet /\ Finished # {} /\ ~last.expired) =>
        /\ Cardinality(Winners) = Min(Cardinality(Finished), HeldAtStart)
        /\ Winners # {} =>
              store["tokens"].val =
                  TbRefilled(last.pre, last.now, lim.Rate, lim.Capacity * Scale)
                      - Cardinality(Winners) * Scale

(* Every caller done on a part-used bucket: one admitted, the others denied. *)
C7_Witness ==
    /\ Quiet /\ ~last.expired
    /\ Finished = Callers
    /\ Cardinality(Winners) = 1
    /\ last.pre["tokens"].present
    /\ HeldAtStart < lim.Capacity

---------------------------------------------------------------------------
(* SpecClock: one caller with a true clock.  Every Allow carries the     *)
(* store's current time as `now`; `calls` records each call's time and   *)
(* verdict, from the first use of the key on.                            *)

MaxTime == 4

InitClock ==
    /\ lim \in TokenBuckets \cup LeakyBuckets \cup SlidingWindows
    /\ Idle

Recorded(now, r) == Append(calls, [now |-> now, ok |-> r.ok])

TbAllow ==
    /\ lim.Type = "token_bucket"
    /\ Len(calls) < MaxCalls
    /\ LET r == TokenBucketAllow(lim, store, clock, clock)
       IN  /\ store' = r.store
           /\ calls' = Recorded(clock, r)
    /\ UNCHANGED <<clock, lim, last, pc, arg, res>>

LbAllow ==
    /\ lim.Type = "leaky_bucket"
    /\ Len(calls) < MaxCalls
    /\ LET r == LeakyBucketAllow(lim, store, clock, clock)
       IN  /\ store' = r.store
           /\ calls' = Recorded(clock, r)
    /\ UNCHANGED <<clock, lim, last, pc, arg, res>>

SwAllow ==
    /\ lim.Type = "sliding_window"
    /\ Len(calls) < MaxCalls
    /\ LET r == SlidingWindowAllow(lim, store, clock, clock)
       IN  /\ store' = r.store
           /\ calls' = Recorded(clock, r)
    /\ UNCHANGED <<clock, lim, last, pc, arg, res>>

TickClock ==
    /\ clock < MaxTime
    /\ clock' = clock + 1
    /\ store' = Expired(store, clock + 1)
    /\ UNCHANGED <<lim, last, calls, pc, arg, res>>

NextClock ==
    \/ TbAllow
    \/ LbAllow
    \/ SwAllow
    \/ TickClock

SpecClock == InitClock /\ [][NextClock]_vars

(* The instant t of the first call on the fresh key. *)
T0 == calls[1].now

(* The first `k` calls were all made at the instant t. *)
BurstOf(k) == Len(calls) >= k /\ calls[k].now = T0

(* At call i a whole unit has refilled (or drained) since t at `rate`. *)
OneUnitBy(i, rate) == (calls[i].now - T0) * rate >= Scale

(* Call i is the first call after the burst of k by which a unit has refilled. *)
FirstRefilled(i, k, rate) ==
    /\ i > k
    /\ OneUnitBy(i, rate)
    /\ \A j \in (k + 1)..(i - 1) : ~OneUnitBy(j, rate)

(* Call i is the first call after the burst of k at or after t + window. *)
FirstAged(i, k, window) ==
    /\ i > k
    /\ calls[i].now >= T0 + window
    /\ \A j \in (k + 1)..(i - 1) : calls[j].now < T0 + window

(* The first Capacity (or Limit) calls, while still at the instant t, are admitted. *)
BurstAdmitted(k) ==
    \A i \in 1..Len(calls) : (i <= k /\ calls[i].now = T0) => calls[i].ok

(* After a burst of Capacity calls at t: denied until a token has refilled, *)
(* admitted at the first call from then on.                                 *)
TbThrottled ==
    BurstOf(lim.Capacity) =>
        \A i \in (lim.Capacity + 1)..Len(calls) :
            /\ ~OneUnitBy(i, lim.Rate) => ~calls[i].ok
            /\ FirstRefilled(i, lim.Capacity, lim.Rate) => calls[i].ok

(* C8 as stated: Capacity calls at t admitted, the next at t denied, every *)
(* later call before one token has refilled denied, the first call once a  *)
(* token has refilled admitted.                                            *)
C8_BurstThenThrottle ==
    (IsToken /\ calls # <<>>) => (BurstAdmitted(lim.Capacity) /\ TbThrottled)

(* C8 (amended): the same for a limiter whose TTL is at least the time one *)
(* token takes to refill (TTL * Rate / 1000 >= 1).                         *)
C8_BurstThenThrottleWithinTTL ==
    (IsToken /\ calls # <<>>) =>
        /\ BurstAdmitted(lim.Capacity)
        /\ lim.TTL * lim.Rate >= Scale => TbThrottled

(* A full burst, a denial at t, a denial later but before the refill, and *)
(* an admission at the first call after it.                               *)
C8_Witness ==
    /\ IsToken /\ lim.TTL * lim.Rate >= Scale
    /\ BurstOf(lim.Capacity + 1)
    /\ \E i \in 1..Len(calls) :
          calls[i].now > T0 /\ ~OneUnitBy(i, lim.Rate) /\ ~calls[i].ok
    /\ \E i \in 1..Len(calls) :
          FirstRefilled(i, lim.Capacity, lim.Rate) /\ calls[i].ok

(* After Limit admissions at t: denied before t + Window, admitted at the *)
(* first call from t + Window on.                                         *)
SwSaturated ==
    BurstOf(lim.Limit) =>
        \A i \in (lim.Limit + 1)..Len(calls) :
            /\ calls[i].now < T0 + lim.Window => ~calls[i].ok
            /\ FirstAged(i, lim.Limit, lim.Window) => calls[i].ok

(* C9 as stated: after Limit admissions at t every Allow before t + Window *)
(* is denied and the Allow at or after t + Window is admitted.             *)
C9_SaturateThenAge ==
    (IsWindow /\ calls # <<>>) => (BurstAdmitted(lim.Limit) /\ SwSaturated)

(* C9 (amended): the same for a limiter whose TTL is at least Window. *)
C9_SaturateThenAgeWithinTTL ==
    (IsWindow /\ calls # <<>>) =>
        /\ BurstAdmitted(lim.Limit)
        /\ lim.TTL >= lim.Window => SwSaturated

(* A saturated window, a denial strictly inside it, and an admission at *)
(* exactly t + Window.                                                  *)
C9_Witness ==
    /\ IsWindow /\ lim.TTL >= lim.Window
    /\ BurstOf(lim.Limit)
    /\ \E i \in 1..Len(calls) :
          calls[i].now > T0 /\ calls[i].now < T0 + lim.Window /\ ~calls[i].ok
    /\ \E i \in 1..Len(calls) :
          /\ FirstAged(i, lim.Limit, lim.Window)
          /\ calls[i].now = T0 + lim.Window
          /\ calls[i].ok

(* After a burst of Capacity calls at t: a further call at t is denied, and *)
(* the first call once one unit has drained is admitted.                    *)
LbOverflowThenDrain ==
    BurstOf(lim.Capacity) =>
        \A i \in (lim.Capacity + 1)..Len(calls) :
            /\ calls[i].now = T0 => ~calls[i].ok
            /\ FirstRefilled(i, lim.Capacity, lim.LeakRate) => calls[i].ok

---------------------------------------------------------------------------
(* The rolling count of a sliding window under a true clock (SpecClock). *)

(* The admitted calls whose timestamp lies in (t - window, t]. *)
AdmittedIn(t, window) ==
    {i \in 1..Len(calls) : calls[i].ok /\ calls[i].now > t - window /\ calls[i].now <= t}

(* C11: sliding window, calls with non-decreasing `now`, TTL >= Window:  *)
(* for every instant t at most Limit admitted calls have their timestamp *)
(* in (t - Window, t].                                                   *)
C11_RollingWithinLimit ==
    (IsWindow /\ lim.TTL >= lim.Window) =>
        \A t \in 0..(MaxTime + 1) : Cardinality(AdmittedIn(t, lim.Window)) <= lim.Limit

(* A window of two ms that holds Limit admissions made at two different *)
(* instants, a denial inside it, and an admission once the oldest aged. *)
C11_Witness ==
    /\ IsWindow /\ lim.TTL >= lim.Window /\ lim.Window > 1
    /\ \E i, j, k \in 1..Len(calls) :
          /\ i < j /\ j < k
          /\ calls[i].ok /\ ~calls[j].ok /\ calls[k].ok
          /\ calls[j].now > calls[i].now
          /\ calls[j].now < calls[i].now + lim.Window
          /\ calls[k].now < calls[j].now + lim.Window
    /\ \E t \in 0..MaxTime : Cardinality(AdmittedIn(t, lim.Window)) = lim.Limit

---------------------------------------------------------------------------
(* Token bucket AllowN(n): all of n or nothing (Spec). *)

(* min(Capacity, tokens + max(0, now - lastTs) * Rate / 1000) for the store *)
(* the last call found, in 1/Scale units.                                   *)
RefilledBefore ==
    LET tokens == IF last.pre["tokens"].present THEN last.pre["tokens"].val
                  ELSE lim.Capacity * Scale
        lastTs == IF last.pre["ts"].present THEN last.pre["ts"].val ELSE last.now
    IN  Min(lim.Capacity * Scale, tokens + Max(0, last.now - lastTs) * lim.Rate)

(* C12: token bucket: AllowN(n) returns true exactly when the refilled   *)
(* count is at least n; the stored count is then the refilled count less *)
(* n and ts is now; a denied call deducts nothing.                       *)
C12_AllOrNothing ==
    (IsToken /\ Ran) =>
        /\ last.ok <=> RefilledBefore >= last.n * Scale
        /\ last.ok =>
              /\ store["tokens"].present /\ store["ts"].present
              /\ store["tokens"].val = RefilledBefore - last.n * Scale
              /\ store["ts"].val = last.now
        /\ ~last.ok => store["tokens"] = last.pre["tokens"]

(* AllowN(2) admitted on a bucket that held less than 2 tokens before the *)
(* refill of the time since ts.                                           *)
C12_Witness ==
    /\ IsToken /\ Admitted /\ last.n = 2
    /\ last.pre["tokens"].present /\ last.pre["tokens"].val < 2 * Scale
    /\ last.now > last.pre["ts"].val
    /\ store["tokens"].val = RefilledBefore - 2 * Scale

---------------------------------------------------------------------------
(* Allow and AllowN(1) on the stores a clock-driven caller reaches (SpecClock). *)

Times == 0..MaxTime

(* C13: for each of the three single limiters, on every store state and *)
(* for every `now`, Allow() and AllowN(1) return the same verdict and    *)
(* error and leave the same store.                                      *)
C13_AllowIsAllowNOne ==
    \A now \in Times :
        /\ IsToken =>
              TokenBucketAllow(lim, store, clock, now)
                  = TokenBucketAllowN(lim, store, clock, 1, now)
        /\ IsLeaky =>
              LeakyBucketAllow(lim, store, clock, now)
                  = LeakyBucketAllowN(lim, store, clock, 1, now)
        /\ IsWindow =>
              SlidingWindowAllow(lim, store, clock, now)
                  = SlidingWindowAllowN(lim, store, clock, 1, now)

(* A token bucket that has denied an Allow and is part refilled: AllowN(1) *)
(* now is admitted and writes the store, AllowN(2) is denied.              *)
C13_Witness ==
    /\ IsToken
    /\ \E i \in 1..Len(calls) : ~calls[i].ok
    /\ TokenBucketAllowN(lim, store, clock, 1, clock).ok
    /\ TokenBucketAllowN(lim, store, clock, 1, clock).store # store
    /\ ~TokenBucketAllowN(lim, store, clock, 2, clock).ok

---------------------------------------------------------------------------
(* The legacy entry point: ShardedRedisTokenBucket and the token-bucket  *)
(* script of its own file.  ARGV = rate, capacity, now, request, ttl.    *)
(* The model follows the two keys of the one shard a shardKey maps to.   *)

NewShardedRedisTokenBucket(rate, capacity, shards, ttl) ==
    [Type |-> "sharded_token", Rate |-> rate, Capacity |-> capacity,
     Shards |-> IF shards <= 0 THEN 1 ELSE shards,
     TTL |-> IF ttl <= 0 THEN 2 * Scale ELSE ttl]

(* Global rates and shard counts whose quotient is a whole number per second. *)
ShardCounts == {1, 2}
GlobalRates == {500, 1000}

ShardedTokenBuckets ==
    {NewShardedRedisTokenBucket(r, MaxCapacity, s, t) :
        r \in GlobalRates, s \in ShardCounts, t \in TTLs}

(* shardRate := l.rate / float64(l.shards); if shardRate <= 0 { shardRate = 1 } *)
ShardRate(l) == IF l.Rate <= 0 THEN 1 ELSE l.Rate \div l.Shards

(* shardCapacity, in 1/Scale units *)
ShardCapacity(l) == IF l.Capacity <= 0 THEN Scale ELSE (l.Capacity * Scale) \div l.Shards

LegacyTokenBucketScript(st, clk, now, rate, capacity, request, ttl) ==
    LET fresh  == ~st["tokens"].present
        ts0    == GetOr(st, "ts", now)
        delta  == now - ts0
        moved  == ~fresh /\ delta > 0
        tokens == IF fresh THEN capacity
                  ELSE IF moved THEN Min(capacity, st["tokens"].val + delta * rate)
                  ELSE st["tokens"].val
        ts     == IF fresh \/ moved THEN now ELSE ts0
        allowed == tokens >= request
        left   == IF allowed THEN tokens - request ELSE tokens
    IN  [res |-> IF allowed THEN 1 ELSE 0,
         store |-> SetPX(SetPX(st, "tokens", left, clk, ttl), "ts", ts, clk, ttl)]

---------------------------------------------------------------------------
(* script.Run(...).Result(): what the client gets back from the store.     *)
(* A reply is a typed value; a healthy store answers with the int64 the    *)
(* script returned.  The transport may fail before the command reaches the *)
(* store ("unsent") or after the script ran ("unheard"), and a store or    *)
(* proxy that is not the real one may answer with another value ("other"). *)

Int64(v) == [type |-> "int64", val |-> v]
NilReply == [type |-> "nil", val |-> 0]

OtherReplies ==
    {[type |-> "int", val |-> 1], [type |-> "int64", val |-> 2],
     [type |-> "string", val |-> 1], NilReply}

Healthy == [fault |-> "none", other |-> NilReply]

Transports ==
    {Healthy, [fault |-> "unsent", other |-> NilReply], [fault |-> "unheard", other |-> NilReply]}
        \cup {[fault |-> "other", other |-> o] : o \in OtherReplies}

Result(r, st, via) ==
    CASE via.fault = "none"    -> [reply |-> Int64(r.res), err |-> FALSE, store |-> r.store, ran |-> TRUE]
      [] via.fault = "unsent"  -> [reply |-> NilReply, err |-> TRUE, store |-> st, ran |-> FALSE]
      [] via.fault = "unheard" -> [reply |-> NilReply, err |-> TRUE, store |-> r.store, ran |-> TRUE]
      [] via.fault = "other"   -> [reply |-> via.other, err |-> FALSE, store |-> r.store, ran |-> TRUE]

(* What AllowN returns: verdict, error (and its kind), and the store it left. *)
Returned(ok, kind, d) ==
    [ok |-> ok, err |-> kind # "nil", kind |-> kind,
     store |-> d.store, ran |-> d.ran, reply |-> d.reply]

(* a variant that reads any reply carrying 1 as an admission *)
DecodeAnyOne(d) ==
    IF d.err THEN Returned(FALSE, "transport", d)
    ELSE Returned(d.reply.val = 1, "nil", d)

(* if err != nil { return false, err }; switch v := res.(type) {          *)
(* case int64: return v == 1, nil; case int: return int64(v) == 1, nil;   *)
(* default: return false, fmt.Errorf("unexpected script result") }        *)
Decode(d) ==
    IF d.err THEN Returned(FALSE, "transport", d)
    ELSE IF d.reply.type \in {"int64", "int"} THEN Returned(d.reply.val = 1, "nil", d)
    ELSE Returned(FALSE, "protocol", d)

(* allowed, ok := res.(int64); if !ok { return false, fmt.Errorf(...) } *)
LegacyDecode(d) ==
    IF d.err THEN Returned(FALSE, "transport", d)
    ELSE IF d.reply.type = "int64" THEN Returned(d.reply.val = 1, "nil", d)
    ELSE Returned(FALSE, "protocol", d)

(* return false, fmt.Errorf("... n must > 0"): no command is sent *)
Rejected(st) ==
    [ok |-> FALSE, err |-> TRUE, kind |-> "invalid", store |-> st,
     ran |-> FALSE, reply |-> NilReply]

TokenBucketAllowNOver(l, st, clk, n, now, via) ==
    IF n <= 0 THEN Rejected(st)
    ELSE Decode(Result(TokenBucketScript(st, clk, now, l.Rate, l.Capacity * Scale,
                                         n * Scale, l.TTL), st, via))

LeakyBucketAllowNOver(l, st, clk, n, now, via) ==
    IF n <= 0 THEN Rejected(st)
    ELSE Decode(Result(LeakyBucketScript(st, clk, now, l.LeakRate, l.Capacity * Scale,
                                         n * Scale, l.TTL), st, via))

(* a variant with the size check of the bucket limiters *)
SlidingWindowAllowNOverAnySize(l, st, clk, n, now, via) ==
    IF n <= 0 THEN Rejected(st)
    ELSE Decode(Result(SlidingWindowScript(st, clk, now, l.Window, l.Limit, l.TTL),
                       st, via))

SlidingWindowAllowNOver(l, st, clk, n, now, via) ==
    IF n # 1 THEN Rejected(st)
    ELSE Decode(Result(SlidingWindowScript(st, clk, now, l.Window, l.Limit, l.TTL),
                       st, via))

ShardedRedisTokenBucketAllowOver(l, st, clk, now, via) ==
    LegacyDecode(Result(LegacyTokenBucketScript(st, clk, now, ShardRate(l), ShardCapacity(l),
                                                Scale, l.TTL), st, via))

---------------------------------------------------------------------------
(* SpecFault: one caller with a true clock on any of the four limiters,   *)
(* any request size, and a transport that may fail.                       *)

Sizes == -1..MaxN

InitFault ==
    /\ lim \in TokenBuckets \cup LeakyBuckets \cup SlidingWindows \cup ShardedTokenBuckets
    /\ Idle

Outcome(n, via, r, before) ==
    [op |-> "AllowN", n |-> n, now |-> clock, fault |-> via.fault, ok |-> r.ok, err |-> r.err,
     kind |-> r.kind, ran |-> r.ran, reply |-> r.reply, pre |-> before]

TbCall(n, via) ==
    /\ lim.Type = "token_bucket"
    /\ LET r == TokenBucketAllowNOver(lim, store, clock, n, clock, via)
       IN  /\ store' = r.store
           /\ last' = Outcome(n, via, r, store)
    /\ UNCHANGED <<clock, lim, calls, pc, arg, res>>

LbCall(n, via) ==
    /\ lim.Type = "leaky_bucket"
    /\ LET r == LeakyBucketAllowNOver(lim, store, clock, n, clock, via)
       IN  /\ store' = r.store
           /\ last' = Outcome(n, via, r, store)
    /\ UNCHANGED <<clock, lim, calls, pc, arg, res>>

SwCall(n, via) ==
    /\ lim.Type = "sliding_window"
    /\ GetOr(store, "seq", 0) < MaxSeq
    /\ LET r == SlidingWindowAllowNOver(lim, store, clock, n, clock, via)
       IN  /\ store' = r.store
           /\ last' = Outcome(n, via, r, store)
    /\ UNCHANGED <<clock, lim, calls, pc, arg, res>>

StCall(via) ==
    /\ lim.Type = "sharded_token"
    /\ LET r == ShardedRedisTokenBucketAllowOver(lim, store, clock, clock, via)
       IN  /\ store' = r.store
           /\ last' = Outcome(1, via, r, store)
    /\ UNCHANGED <<clock, lim, calls, pc, arg, res>>

NextFault ==
    \/ \E n \in Sizes, via \in Transports : TbCall(n, via)
    \/ \E n \in Sizes, via \in Transports : LbCall(n, via)
    \/ \E n \in Sizes, via \in Transports : SwCall(n, via)
    \/ \E via \in Transports : StCall(via)
    \/ Tick

SpecFault == InitFault /\ [][NextFault]_vars

IsSharded == lim.Type = "sharded_token"

CalledNow == last.op = "AllowN"

(* The request size the limiter refuses before it sends anything. *)
BadSize == IF IsWindow THEN last.n # 1 ELSE last.n <= 0

(* C14: token and leaky bucket AllowN(n <= 0) and sliding-window          *)
(* AllowN(n # 1) return (false, non-nil error), run no script, and leave  *)
(* every key of the store as it was, value and expiry.                    *)
C14_BadSizeRejectedUntouched ==
    (CalledNow /\ ~IsSharded /\ BadSize) =>
        /\ ~last.ok /\ last.err /\ last.kind = "invalid"
        /\ ~last.ran
        /\ store = last.pre

(* AllowN(2) on a sliding-window log that holds an entry and had room for *)
(* one more, and whose purge at this `now` would have removed an entry.   *)
C14_Witness ==
    /\ CalledNow /\ IsWindow /\ last.n = 2 /\ last.fault = "none"
    /\ last.pre["log"].present
    /\ SwPurged(last.pre, last.now, lim.Window) # last.pre
    /\ last.err

(* C15: on each of the four limiters, a call that returns a non-nil error *)
(* (a transport error, or a reply that is not an integer) returns the     *)
(* verdict false; the verdict is true only when the call returns no error *)
(* and the reply is the integer 1.                                        *)
C15_NoAdmissionOnError ==
    CalledNow =>
        /\ last.err => ~last.ok
        /\ last.ok => (last.reply.type \in {"int64", "int"} /\ last.reply.val = 1)
        /\ (last.kind # "invalid" /\ last.fault \in {"unsent", "unheard"})
              => (last.err /\ last.kind = "transport")
        /\ (last.ran /\ last.fault \in {"none", "other"}
                /\ last.reply.type \notin {"int64", "int"})
              => (last.err /\ last.kind = "protocol")

(* The script admitted and wrote the store, and the reply the caller got *)
(* is the string "1", not the integer.                                   *)
C15_Witness ==
    /\ CalledNow /\ last.fault = "other"
    /\ last.reply.type = "string" /\ last.reply.val = 1
    /\ store # last.pre
    /\ last.err /\ ~last.ok

---------------------------------------------------------------------------
(* SpecWait: one Wait call, entered at time 0.  The key is shared with    *)
(* other clients, so the script of each Allow of the loop may return 0 or *)
(* 1, over a transport that may fail; the store itself is not followed    *)
(* here.  The caller's context may be cancelled at any moment of the      *)
(* call.  Time is in ms.                                                  *)
(*   pc:  "idle", "allow" (about to invoke Allow), "until" (deadline test  *)
(*        passed, about to read the remaining time), "select" (blocked in  *)
(*        the select), "ctx" (woken by ctx.Done()), "done".                *)
(*   arg: asked (the maxWait argument), maxWait (after the clamp at 0),    *)
(*        deadline, now, sleep, fireAt (expiry of the timer), sleeps (the  *)
(*        number of timer.Reset calls, counted up to MaxAllows).           *)
(*   res: "nil", "ErrLimiter", "ErrTimeout", "ctx", or the error of Allow. *)

MaxWait == 12
(* Sharded limiters: the largest shard count asked for, the calls of one run. *)
MaxShards == 3
MaxShardCalls == 2
MaxShardTime == 1

(* Wait over a store: the ms that pass before the Wait call is entered, and *)
(* the longest maxWait asked for.                                          *)
MaxIdle == 2
MaxWsWait == 3

(* Fixed-window remainder: the largest window (s), the seconds of a run, the *)
(* calls of a run.                                                           *)
MaxRemWindow == 4
MaxRemTime == 5
MaxPushes == 4

MaxSamples == 4

MaxAllows == 4

(* sleep := 10 * time.Millisecond *)
SleepStep == 10

MaxWaits == {-1, 0, 4, MaxWait}
WaitHorizon == MaxWait + 2

(* ShardedLeakyBucketLimiter: Wait picks a shard and forwards to its Wait. *)
ShardedLeakyBucketOn(shard) == [Type |-> "sharded_leaky", Shard |-> shard]

(* The limiter whose Wait loop runs. *)
WaitTarget(l) == IF l.Type = "sharded_leaky" THEN l.Shard ELSE l

(* Global rates that give a shard 250/s (4 ms apart) and 2000/s (0.5 ms apart). *)
WaitRates == {500, 4000}

WaitLimiters ==
    {NewTokenBucketLimiter(1000, 1, 1),
     NewSlidingWindowLimiter(1, 1, 1),
     NewLeakyBucketLimiter(1000, 1, 1),
     ShardedLeakyBucketOn(NewLeakyBucketLimiter(1000, 1, 1))}
        \cup {NewShardedRedisTokenBucket(r, MaxCapacity, 2, 1) : r \in WaitRates}

(* a variant in which the legacy Wait lacks the test *)
FailsFastSingles(l) == WaitTarget(l).Type \in {"token_bucket", "sliding_window"}

(* if maxWait == 0 { return ErrLimiter }: present in the Wait of the token *)
(* bucket, the sliding window and the legacy sharded token bucket; the     *)
(* Wait of the leaky bucket has no such test.                              *)
FailsFast(l) == WaitTarget(l).Type \in {"token_bucket", "sliding_window", "sharded_token"}

(* sleep := 10ms; legacy: time.Second / shardRate, at least time.Millisecond *)
Backoff(l) ==
    IF WaitTarget(l).Type = "sharded_token"
    THEN Max(1, Scale \div ShardRate(WaitTarget(l)))
    ELSE SleepStep

(* a variant that sleeps the whole backoff whatever time remains *)
SleepUncapped(backoff, remain) == backoff

(* if sleep > remain { sleep = remain } *)
SleepFor(backoff, remain) == IF backoff > remain THEN remain ELSE backoff

(* the Allow of the loop: script verdict b over the transport `via` *)
WaitAllowResult(l, b, via) ==
    LET r == [res |-> b, store |-> store]
    IN  IF WaitTarget(l).Type = "sharded_token" THEN LegacyDecode(Result(r, store, via))
        ELSE Decode(Result(r, store, via))

(* a variant that takes an error of Allow for a denial and tries again *)
AfterAllowRetryOnError(l, r, maxWait) ==
    IF r.ok /\ ~r.err THEN [pc |-> "done", res |-> "nil"]
    ELSE IF FailsFast(l) /\ maxWait = 0 THEN [pc |-> "done", res |-> "ErrLimiter"]
    ELSE [pc |-> "now", res |-> "none"]

(* a variant that sleeps and tries again after an error of Allow *)
AfterAllowSleepOnError(l, r, maxWait) ==
    IF r.err THEN [pc |-> "now", res |-> "none"]
    ELSE IF r.ok THEN [pc |-> "done", res |-> "nil"]
    ELSE IF FailsFast(l) /\ maxWait = 0 THEN [pc |-> "done", res |-> "ErrLimiter"]
    ELSE [pc |-> "now", res |-> "none"]

(* if err != nil { return err }; if ok { return nil };  *)
(* if maxWait == 0 { return ErrLimiter }                *)
AfterAllow(l, r, maxWait) ==
    IF r.err THEN [pc |-> "done", res |-> r.kind]
    ELSE IF r.ok THEN [pc |-> "done", res |-> "nil"]
    ELSE IF FailsFast(l) /\ maxWait = 0 THEN [pc |-> "done", res |-> "ErrLimiter"]
    ELSE [pc |-> "now", res |-> "none"]

(* a variant of the select that looks at the timer only *)
SelectTimerOnly(cancelled, expired) == IF expired THEN {"timer"} ELSE {}

(* select { case <-ctx.Done(): ...; case <-timer.C: }: the ready cases *)
Select(cancelled, expired) ==
    (IF cancelled THEN {"ctx"} ELSE {}) \cup (IF expired THEN {"timer"} ELSE {})

NotCancelled == [op |-> "ctx", cancelled |-> FALSE, asleep |-> FALSE]

InitWait ==
    /\ clock = 0
    /\ lim \in WaitLimiters
    /\ store = EmptyStore(lim)
    /\ last = NotCancelled
    /\ calls = <<>>
    /\ pc = "idle"
    /\ arg = [asked |-> 0, maxWait |-> 0, deadline |-> 0, now |-> 0,
              sleep |-> 0, fireAt |-> 0, sleeps |-> 0]
    /\ res = "none"

(* maxWait = max(maxWait, 0); deadline := time.Now().Add(maxWait) *)
WaitEnter(maxWait) ==
    /\ pc = "idle"
    /\ arg' = [arg EXCEPT !.asked = maxWait, !.maxWait = Max(maxWait, 0),
                          !.deadline = clock + Max(maxWait, 0)]
    /\ pc' = "allow"
    /\ UNCHANGED <<clock, lim, store, last, calls, res>>

(* a variant of the deadline test that never finds the deadline passed *)
AfterNever(now, deadline) == FALSE

(* now.After(deadline) *)
After(now, deadline) == now > deadline

(* ok, err := Allow(ctx) and the tests that follow it, up to             *)
(* now := time.Now(); if now.After(deadline) { return ErrTimeout }       *)
WaitAllow(b, via) ==
    /\ pc = "allow"
    /\ Len(calls) < MaxAllows
    /\ LET r == WaitAllowResult(lim, b, via)
           a == AfterAllow(lim, r, arg.maxWait)
       IN  /\ calls' = Append(calls, [ok |-> r.ok, err |-> r.err, kind |-> r.kind])
           /\ IF a.pc = "done"
              THEN /\ pc' = "done"
                   /\ res' = a.res
                   /\ arg' = arg
              ELSE /\ arg' = [arg EXCEPT !.now = clock]
                   /\ IF After(clock, arg.deadline)
                      THEN pc' = "done" /\ res' = "ErrTimeout"
                      ELSE pc' = "until" /\ res' = res
    /\ UNCHANGED <<clock, lim, store, last>>

(* remain := time.Until(deadline); cap sleep; timer.Reset(sleep); select. *)
(* A case that is ready on entry is taken at once (any one of them);     *)
(* otherwise the call blocks.                                            *)
WaitSleep ==
    /\ pc = "until"
    /\ LET remain == arg.deadline - clock
           sleep  == SleepFor(Backoff(lim), remain)
           ready  == Select(last.cancelled, sleep <= 0)
       IN  /\ arg' = [arg EXCEPT !.sleep = sleep, !.fireAt = clock + sleep,
                                 !.sleeps = Min(arg.sleeps + 1, MaxAllows)]
           /\ IF ready = {} THEN pc' = "select"
              ELSE \E c \in ready : pc' = IF c = "ctx" THEN "ctx" ELSE "allow"
    /\ UNCHANGED <<clock, lim, store, last, calls, res>>

(* case <-ctx.Done(): return ctx.Err() *)
WaitCtxDone ==
    /\ pc = "ctx"
    /\ pc' = "done"
    /\ res' = "ctx"
    /\ UNCHANGED <<clock, lim, store, last, calls, arg>>

(* The caller's context is cancelled during the call; a Wait blocked in *)
(* its select is woken by ctx.Done().                                   *)
Cancel ==
    /\ pc \notin {"idle", "done"}
    /\ ~last.cancelled
    /\ last' = [last EXCEPT !.cancelled = TRUE, !.asleep = (pc = "select")]
    /\ pc' = IF "ctx" \in Select(TRUE, FALSE) /\ pc = "select" THEN "ctx" ELSE pc
    /\ UNCHANGED <<clock, lim, store, calls, arg, res>>

(* Time passes; a Wait blocked in its select whose timer expires is woken *)
(* by timer.C and goes round the loop.                                    *)
TickWait ==
    /\ pc # "idle"
    /\ clock < WaitHorizon
    /\ clock' = clock + 1
    /\ pc' = IF pc = "select" /\ clock + 1 >= arg.fireAt THEN "allow" ELSE pc
    /\ UNCHANGED <<lim, store, last, calls, arg, res>>

NextWait ==
    \/ \E m \in MaxWaits : WaitEnter(m)
    \/ \E b \in {0, 1}, via \in Transports : WaitAllow(b, via)
    \/ WaitSleep
    \/ WaitCtxDone
    \/ Cancel
    \/ TickWait

SpecWait == InitWait /\ [][NextWait]_vars

WaitOver == pc = "done"

(* Every Allow of the call so far returned (false, nil). *)
AllDenied == \A i \in 1..Len(calls) : ~calls[i].ok /\ ~calls[i].err

(* C16: in every Wait call, each Allow but the last returned (false, nil); *)
(* an Allow that returns an error is the last one and Wait returns that    *)
(* error; Wait returns nil only when its last Allow returned (true, nil);  *)
(* a call that has returned invokes Allow no more.                         *)
C16_WaitLoopProtocol ==
    pc # "idle" =>
        /\ \A i \in 1..(Len(calls) - 1) : ~calls[i].ok /\ ~calls[i].err
        /\ \A i \in 1..Len(calls) :
              calls[i].err => (i = Len(calls) /\ WaitOver /\ res = calls[i].kind)
        /\ (WaitOver /\ res = "nil") =>
              (calls # <<>> /\ calls[Len(calls)].ok /\ ~calls[Len(calls)].err)
        /\ (calls # <<>> /\ calls[Len(calls)].ok) => (WaitOver /\ res = "nil")
        /\ WaitOver => calls # <<>>

(* A call that slept between two denials and then got an error from Allow. *)
C16_Witness ==
    /\ WaitOver /\ Len(calls) = 3 /\ arg.sleeps = 2
    /\ calls[3].err /\ calls[3].kind = "protocol"
    /\ res = "protocol"

(* C17: token bucket, sliding window and legacy sharded token bucket:   *)
(* a Wait with maxWait <= 0 invokes Allow once and never sleeps; if the *)
(* Allow returned (false, nil) it returns ErrLimiter, never ErrTimeout. *)
C17_FailFast ==
    (lim.Type \in {"token_bucket", "sliding_window", "sharded_token"}
        /\ pc # "idle" /\ arg.asked <= 0) =>
        /\ pc \in {"allow", "done"}
        /\ arg.sleeps = 0
        /\ Len(calls) <= 1
        /\ WaitOver =>
              /\ Len(calls) = 1
              /\ res # "ErrTimeout"
              /\ AllDenied => res = "ErrLimiter"

(* The legacy Wait with a negative maxWait: its one Allow was denied, the *)
(* clock is past the deadline, and the call returned ErrLimiter.          *)
C17_Witness ==
    /\ lim.Type = "sharded_token" /\ arg.asked < 0
    /\ WaitOver /\ AllDenied
    /\ clock > arg.deadline
    /\ res = "ErrLimiter"

(* C18: leaky bucket (and the sharded leaky bucket, which forwards to it): *)
(* a Wait with maxWait = 0 whose first Allow is denied returns ErrLimiter, *)
(* after exactly one Allow and no sleep.                                   *)
C18_LeakyFailFast ==
    (lim.Type \in {"leaky_bucket", "sharded_leaky"}
        /\ arg.asked = 0 /\ WaitOver /\ AllDenied) =>
        /\ res = "ErrLimiter"
        /\ Len(calls) = 1
        /\ arg.sleeps = 0

(* The context was cancelled during a Wait(maxWait > 0) whose every Allow *)
(* returned (false, nil).                                                 *)
CancelledSaturated == last.cancelled /\ arg.asked > 0 /\ AllDenied

(* C19 as stated: a Wait(maxWait > 0) on a saturated limiter whose context *)
(* is cancelled during the call returns the context's error and never     *)
(* ErrTimeout, whenever the cancellation comes.                            *)
C19_CancelNeverTimeout ==
    (WaitOver /\ CancelledSaturated) => res = "ctx"

(* C19 (amended): a cancellation that finds the call blocked in a sleep   *)
(* ends that sleep and the call returns the context's error; a cancelled  *)
(* call is never blocked; the context's error is returned only after a    *)
(* cancellation; and a cancelled call returns ErrTimeout only when the    *)
(* cancellation came outside a sleep and the clock read after a later     *)
(* denied Allow was past the deadline.                                    *)
C19_CancelEndsSleep ==
    pc # "idle" =>
        /\ (WaitOver /\ CancelledSaturated /\ last.asleep) => res = "ctx"
        /\ last.cancelled => pc # "select"
        /\ (WaitOver /\ res = "ctx") => last.cancelled
        /\ (WaitOver /\ CancelledSaturated /\ res # "ctx") =>
              (~last.asleep /\ res = "ErrTimeout" /\ arg.now > arg.deadline)

(* A call cancelled in its second sleep, with time left before the deadline. *)
C19_Witness ==
    /\ WaitOver /\ CancelledSaturated /\ last.asleep
    /\ Len(calls) = 2 /\ arg.sleeps = 2
    /\ clock < arg.fireAt
    /\ res = "ctx"

(* The backoff of each Wait in ms: 10 for the single limiters (and the  *)
(* sharded leaky bucket that forwards to one), max(1, 1000 / shardRate) *)
(* for the legacy sharded token bucket.                                 *)
StatedBackoff ==
    IF lim.Type = "sharded_token" THEN Max(1, Scale \div (lim.Rate \div lim.Shards))
    ELSE SleepStep

(* arg.now, arg.sleep and arg.fireAt belong to the same round of the loop. *)
InSleepRound ==
    /\ arg.sleeps > 0
    /\ pc \in {"select", "ctx", "allow"} \/ (WaitOver /\ res = "ctx")

(* C20: Wait(maxWait > 0), deadline = start + maxWait: every sleep is    *)
(* min(backoff, deadline - clock at timer.Reset), hence at most          *)
(* min(backoff, deadline - now) for the `now` read after the denied      *)
(* Allow, and its timer expires no later than the deadline; ErrTimeout   *)
(* is returned only when the clock read after a denied Allow is strictly *)
(* later than the deadline.                                              *)
C20_DeadlineDiscipline ==
    (pc # "idle" /\ arg.asked > 0) =>
        /\ arg.deadline = arg.asked
        /\ InSleepRound =>
              /\ arg.now <= arg.deadline
              /\ arg.fireAt - arg.sleep >= arg.now
              /\ arg.sleep = Min(StatedBackoff, arg.deadline - (arg.fireAt - arg.sleep))
              /\ arg.sleep <= Min(StatedBackoff, arg.deadline - arg.now)
              /\ arg.fireAt <= arg.deadline
        /\ (WaitOver /\ res = "ErrTimeout") =>
              /\ ~calls[Len(calls)].ok /\ ~calls[Len(calls)].err
              /\ arg.now > arg.deadline

(* A single limiter blocked in its second sleep, cut short of the backoff *)
(* so that it ends at the deadline.                                       *)
C20_Witness ==
    /\ lim.Type # "sharded_token" /\ arg.asked > 0
    /\ pc = "select" /\ arg.sleeps = 2
    /\ arg.sleep > 0 /\ arg.sleep < StatedBackoff
    /\ arg.fireAt = arg.deadline

---------------------------------------------------------------------------
(* SpecWaitFair: the same Wait call with no bound on the rounds of its    *)
(* loop.  `calls` keeps the first MaxAllows - 1 results and the latest.   *)
(* The goroutine of the call keeps being scheduled, every Allow returns,  *)
(* and the clock keeps advancing (up to the horizon, which lies past      *)
(* every deadline).                                                       *)

Remembered(r) ==
    LET c == [ok |-> r.ok, err |-> r.err, kind |-> r.kind]
    IN  IF Len(calls) < MaxAllows THEN Append(calls, c)
        ELSE [calls EXCEPT ![MaxAllows] = c]

WaitAllowAgain(b, via) ==
    /\ pc = "allow"
    /\ LET r == WaitAllowResult(lim, b, via)
           a == AfterAllow(lim, r, arg.maxWait)
       IN  /\ calls' = Remembered(r)
           /\ IF a.pc = "done"
              THEN /\ pc' = "done"
                   /\ res' = a.res
                   /\ arg' = arg
              ELSE /\ arg' = [arg EXCEPT !.now = clock]
                   /\ IF After(clock, arg.deadline)
                      THEN pc' = "done" /\ res' = "ErrTimeout"
                      ELSE pc' = "until" /\ res' = res
    /\ UNCHANGED <<clock, lim, store, last>>

WaitRound == \E b \in {0, 1}, via \in Transports : WaitAllowAgain(b, via)

NextWaitFair ==
    \/ \E m \in MaxWaits : WaitEnter(m)
    \/ WaitRound
    \/ WaitSleep
    \/ WaitCtxDone
    \/ Cancel
    \/ TickWait

SpecWaitFair ==
    /\ InitWait
    /\ [][NextWaitFair]_vars
    /\ WF_vars(WaitRound)
    /\ WF_vars(WaitSleep)
    /\ WF_vars(WaitCtxDone)
    /\ WF_vars(TickWait)

(* C21: for every limiter, a Wait(maxWait > 0) call eventually returns,  *)
(* and when every Allow returned (false, nil) and the context was not    *)
(* cancelled the value it returns is ErrTimeout.                         *)
C21_WaitTerminates ==
    (pc # "idle" /\ arg.asked > 0) ~>
        (WaitOver /\ ((AllDenied /\ ~last.cancelled) => res = "ErrTimeout"))

(* A call that went round the loop more often than `calls` can hold, was *)
(* denied each time and returned ErrTimeout.                             *)
C21_Witness ==
    /\ WaitOver /\ arg.asked > 0
    /\ AllDenied /\ ~last.cancelled
    /\ Len(calls) = MaxAllows /\ arg.sleeps = MaxAllows
    /\ arg.now > arg.deadline
    /\ res = "ErrTimeout"

---------------------------------------------------------------------------
(* Sharded limiters: FNV-1a over the shardKey bytes, the index, the table   *)
(* of shards and the names of their store keys.                             *)

(* A 32-bit word is kept as two 16-bit halves [hi, lo]. *)
Half == 65536

(* a ^ b on the low `width` bits *)
RECURSIVE BitXor(_, _, _)
BitXor(a, b, width) ==
    IF width = 0 THEN 0
    ELSE (((a % 2) + (b % 2)) % 2) + 2 * BitXor(a \div 2, b \div 2, width - 1)

(* fnv.New32a(): the offset basis 2166136261 = 33052 * 65536 + 40389 *)
OffsetHi == 33052
OffsetLo == 40389

(* the FNV prime 16777619 = 256 * 65536 + 403 *)
PrimeHi == 256
PrimeLo == 403

(* h.Write of one byte: hash ^= byte; hash *= prime32 (mod 2^32) *)
Write32a(h, byte) ==
    LET lo == (h.lo \div 256) * 256 + BitXor(h.lo % 256, byte, 8)
        p  == lo * PrimeLo
    IN  [hi |-> (h.hi * PrimeLo + lo * PrimeHi + p \div Half) % Half, lo |-> p % Half]

(* h.Write([]byte(shardKey)); h.Sum32() *)
RECURSIVE Sum32(_)
Sum32(bytes) ==
    IF bytes = <<>> THEN [hi |-> OffsetHi, lo |-> OffsetLo]
    ELSE Write32a(Sum32(SubSeq(bytes, 1, Len(bytes) - 1)), bytes[Len(bytes)])

(* The shardKey strings callers pass, as bytes: "", "ba", "u7". *)
ShardKeys == {<<>>, <<98, 97>>, <<117, 55>>}

(* Sum32 of each of them, computed once *)
Hashes == [bytes \in ShardKeys |-> Sum32(bytes)]

(* the unsigned word modulo a positive count *)
ModCount(h, count) == ((h.hi % count) * (Half % count) + h.lo) % count

(* 2^32 - h modulo count: the size of the negative int a wrapped word becomes *)
ModWrapped(h, count) ==
    ((((Half % count) * (Half % count)) % count) + count - ModCount(h, count)) % count

(* The width of Go's int on the build: 32 or 64 bits. *)
IntSizes == {32, 64}

(* pick: return int(h.Sum32()) % s.count.  On a 64-bit int the conversion    *)
(* keeps the value; on a 32-bit int a word of 2^31 or more becomes negative, *)
(* and Go's % keeps the sign of the dividend.                                *)
Pick(bytes, count, intSize) ==
    LET h == Hashes[bytes]
    IN  IF intSize = 32 /\ h.hi >= Half \div 2
        THEN 0 - ModWrapped(h, count)
        ELSE ModCount(h, count)

(* shardFor: 0 when there is one shard, else int(h.Sum32() % uint32(l.shards)) *)
ShardFor(bytes, shards, intSize) ==
    IF shards = 1 THEN 0 ELSE ModCount(Hashes[bytes], shards)



(* strconv of a non-negative int, as %d prints it: a sequence of characters *)
Digit(d) == <<"0", "1", "2", "3", "4", "5", "6", "7", "8", "9">>[d + 1]

RECURSIVE Itoa(_)
Itoa(i) == IF i < 10 THEN <<Digit(i)>> ELSE Itoa(i \div 10) \o <<Digit(i % 10)>>

(* a variant that prints the last digit of the index only *)
ShardKeyNameLastDigit(key, i) ==
    key \o <<":", "s", "h", "a", "r", "d", ":">> \o <<Digit(i % 10)>>

(* fmt.Sprintf("%s:shard:%d", key, i) *)
ShardKeyName(key, i) == key \o <<":", "s", "h", "a", "r", "d", ":">> \o Itoa(i)

(* fmt.Sprintf("%s:{%s}:tokens", tb.Prefix, tb.Key) and its companions *)
StoreKey(prefix, key, suffix) == prefix \o <<":", "{">> \o key \o <<"}", ":">> \o suffix

(* The default prefixes "tbucket", "lb", "sw", and the two suffixes of each kind. *)
PrefixOf(type) ==
    IF type = "token_bucket" THEN <<"t", "b", "u", "c", "k", "e", "t">>
    ELSE IF type = "leaky_bucket" THEN <<"l", "b">>
    ELSE <<"s", "w">>

SuffixesOf(type) ==
    IF type = "token_bucket" THEN <<<<"t", "o", "k", "e", "n", "s">>, <<"t", "s">>>>
    ELSE IF type = "leaky_bucket" THEN <<<<"b", "u", "c", "k", "e", "t">>, <<"t", "s">>>>
    ELSE <<<<"l", "o", "g">>, <<"s", "e", "q">>>>

(* tokensKey()/tsKey(), bucketKey()/tsKey(), logKey()/seqKey() of one limiter *)
StoreKeysOf(l) ==
    [k \in 1..2 |-> StoreKey(l.Prefix, l.Key, SuffixesOf(l.Type)[k])]

---------------------------------------------------------------------------
(* State: what the three limiters report.  Quantities are in 1/Scale units, *)
(* times in ms; NextAvailableTime is kept to whole ms.                      *)

(* The business key of a limiter of the bounded sets, which carry no name. *)
KeyOf(l) == IF "Key" \in DOMAIN l THEN l.Key ELSE <<"k">>

(* LimiterState{} *)
ZeroState ==
    [Level |-> 0, Remaining |-> 0, Capacity |-> 0, Rate |-> 0, LastUpdated |-> 0,
     NextAvailableTime |-> 0, Type |-> "", Key |-> <<>>]

(* client.Get(ctx, key).Result(): the value, or redis.Nil for a missing key *)
Get(st, k) == [nil |-> ~st[k].present, val |-> IF st[k].present THEN st[k].val ELSE 0]

(* what State returns, and the store it leaves *)
Reported(state, st) == [err |-> "nil", state |-> state, store |-> st]

Failed(err, st) == [err |-> err, state |-> ZeroState, store |-> st]

(* errors.Is(err, redis.Nil) on the tokens key: the bucket counts as full *)
TokenBucketFull(l, now) ==
    [Level |-> CapacityUnits(l), Remaining |-> CapacityUnits(l), Capacity |-> CapacityUnits(l),
     Rate |-> l.Rate, LastUpdated |-> now, NextAvailableTime |-> now,
     Type |-> "token_bucket", Key |-> KeyOf(l)]

(* deltaMs := float64(nowMs - lastTs); if deltaMs < 0 { deltaMs = 0 } *)
StDelta(now, lastTs) == IF now - lastTs < 0 THEN 0 ELSE now - lastTs

(* a variant whose local refill is not clamped to the capacity *)
StRefilledUnclamped(tokens, lastTs, now, rate, capacity) ==
    tokens + StDelta(now, lastTs) * rate

(* tokens += (deltaMs * Rate) / 1000; if tokens > Capacity { tokens = Capacity } *)
StRefilled(tokens, lastTs, now, rate, capacity) ==
    LET refilled == tokens + StDelta(now, lastTs) * rate
    IN  IF refilled > capacity THEN capacity ELSE refilled

(* both keys read and parsed: the local refill, the level, the next time *)
TokenBucketLevel(l, tokens, lastTs, now) ==
    LET refilled == StRefilled(tokens, lastTs, now, l.Rate, CapacityUnits(l))
        level    == IF refilled < 0 THEN 0 ELSE refilled
        wait     == IF level >= Scale THEN 0 ELSE Max(0, (Scale - level) \div l.Rate)
    IN  [Level |-> level, Remaining |-> level, Capacity |-> CapacityUnits(l),
         Rate |-> l.Rate, LastUpdated |-> lastTs, NextAvailableTime |-> now + wait,
         Type |-> "token_bucket", Key |-> KeyOf(l)]

(* a variant that takes a missing ts key for a full bucket *)
TokenBucketStateAfterFull(l, tokens, st, clk, now) ==
    LET ts == Get(st, "ts")
    IN  IF ts.nil THEN Reported(TokenBucketFull(l, now), st)
        ELSE Reported(TokenBucketLevel(l, tokens, ts.val, now), st)

(* a variant that writes the refilled balance back *)
TokenBucketStateAfterWriting(l, tokens, st, clk, now) ==
    LET ts    == Get(st, "ts")
        state == TokenBucketLevel(l, tokens, ts.val, now)
    IN  IF ts.nil THEN Failed("redis.Nil", st)
        ELSE Reported(state, SetPX(SetPX(st, "tokens", state.Level, clk, l.TTL),
                                   "ts", now, clk, l.TTL))

(* the second half of State: GET ts, then the arithmetic at `now` *)
TokenBucketStateAfter(l, tokens, st, clk, now) ==
    LET ts == Get(st, "ts")
    IN  IF ts.nil THEN Failed("redis.Nil", st)
        ELSE Reported(TokenBucketLevel(l, tokens, ts.val, now), st)

(* TokenBucketLimiter.State with nothing between its two reads *)
TokenBucketState(l, st, clk, now) ==
    LET tokens == Get(st, "tokens")
    IN  IF tokens.nil THEN Reported(TokenBucketFull(l, now), st)
        ELSE TokenBucketStateAfter(l, tokens.val, st, clk, now)

(* the bucket key or the ts key is missing: the bucket counts as empty *)
LeakyBucketEmpty(l, now) ==
    [Level |-> 0, Remaining |-> CapacityUnits(l), Capacity |-> CapacityUnits(l),
     Rate |-> l.LeakRate, LastUpdated |-> now, NextAvailableTime |-> now,
     Type |-> "leaky_bucket", Key |-> KeyOf(l)]

(* both keys read and parsed: the local leak, the room left, the next time *)
LeakyBucketLevel(l, level, lastTs, now) ==
    LET leaked    == level - StDelta(now, lastTs) * l.LeakRate
        drained   == IF leaked < 0 THEN 0 ELSE leaked
        remaining == Max(0, CapacityUnits(l) - drained)
        wait      == IF drained < CapacityUnits(l) THEN 0
                     ELSE Max(0, (drained - CapacityUnits(l)) \div l.LeakRate)
    IN  [Level |-> drained, Remaining |-> remaining, Capacity |-> CapacityUnits(l),
         Rate |-> l.LeakRate, LastUpdated |-> lastTs, NextAvailableTime |-> now + wait,
         Type |-> "leaky_bucket", Key |-> KeyOf(l)]

(* the second half of State: GET ts, then the arithmetic at `now` *)
LeakyBucketStateAfter(l, level, st, clk, now) ==
    LET ts == Get(st, "ts")
    IN  IF ts.nil THEN Reported(LeakyBucketEmpty(l, now), st)
        ELSE Reported(LeakyBucketLevel(l, level, ts.val, now), st)

(* LeakyBucketLimiter.State with nothing between its two reads *)
LeakyBucketState(l, st, clk, now) ==
    LET level == Get(st, "bucket")
    IN  IF level.nil THEN Reported(LeakyBucketEmpty(l, now), st)
        ELSE LeakyBucketStateAfter(l, level.val, st, clk, now)

(* client.ZCount(ctx, logKey, minScore, "+inf"): both ends inclusive *)
ZCount(st, lo) == Cardinality({e \in st["log"].val : e.score >= lo})

(* SingleSlidingWindowLimiter.State: one ZCOUNT from now - Window upwards *)
SlidingWindowState(l, st, clk, now) ==
    LET card      == ZCount(st, now - l.Window)
        remaining == Max(0, l.Limit - card)
    IN  Reported([Level |-> card, Remaining |-> remaining, Capacity |-> l.Limit,
                  Rate |-> (l.Limit * Scale) \div l.Window, LastUpdated |-> now,
                  NextAvailableTime |-> now, Type |-> "sliding_window", Key |-> KeyOf(l)], st)

(* AllowN and State of a limiter of any of the three kinds *)
AllowNOf(l, st, clk, n, now) ==
    IF l.Type = "token_bucket" THEN TokenBucketAllowN(l, st, clk, n, now)
    ELSE IF l.Type = "leaky_bucket" THEN LeakyBucketAllowN(l, st, clk, n, now)
    ELSE SlidingWindowAllowN(l, st, clk, n, now)

StateOf(l, st, clk, now) ==
    IF l.Type = "token_bucket" THEN TokenBucketState(l, st, clk, now)
    ELSE IF l.Type = "leaky_bucket" THEN LeakyBucketState(l, st, clk, now)
    ELSE SlidingWindowState(l, st, clk, now)

---------------------------------------------------------------------------
(* The sharded constructors: the shard count, the shard names, and the      *)
(* custom option that divides the budget of each shard.                     *)

(* if shardCount <= 0 { shardCount = 16 } *)
DefaultShardCount == 16

ShardCountOf(shardCount) == IF shardCount <= 0 THEN DefaultShardCount ELSE shardCount

(* tb.Rate = tb.Rate / float64(shardCount); if tb.Rate <= 0 { tb.Rate = 1 }: *)
(* a float quotient of a positive rate is positive, so only a rate that is   *)
(* not positive is replaced.  The rates used divide evenly.                  *)
SharedRate(rate, shardCount) == IF rate <= 0 THEN 1 ELSE rate \div shardCount

(* a variant that divides by one more than the shard count *)
SharedCapacityShort(capacity, shardCount) ==
    IF capacity <= 0 THEN Scale ELSE (capacity * Scale) \div (shardCount + 1)

(* tb.Capacity = tb.Capacity / float64(shardCount); if tb.Capacity <= 0 {    *)
(* tb.Capacity = 1 }, in 1/Scale units, the quotient kept to that unit       *)
SharedCapacity(capacity, shardCount) ==
    IF capacity <= 0 THEN Scale ELSE (capacity * Scale) \div shardCount

(* l.Limit = l.Limit / int64(shardCount); if l.Limit <= 0 { l.Limit = 1 } *)
SharedLimit(limit, shardCount) ==
    IF limit \div shardCount <= 0 THEN 1 ELSE limit \div shardCount

NewShardedTokenBucketLimiter(key, shardCount, rate, capacity, ttl, intSize) ==
    LET count == ShardCountOf(shardCount)
    IN  [Type |-> "sharded_token_bucket", count |-> count, intSize |-> intSize,
         opts |-> [Key |-> key, ShardCount |-> shardCount, Rate |-> rate,
                  Capacity |-> capacity, TTL |-> ttl],
         shards |-> [i \in 0..(count - 1) |->
                        [Type |-> "token_bucket", Prefix |-> PrefixOf("token_bucket"),
                         Key |-> ShardKeyName(key, i), Rate |-> SharedRate(rate, count),
                         CapacityUnits |-> SharedCapacity(capacity, count), TTL |-> ttl]]]

NewShardedLeakyBucketLimiter(key, shardCount, leakRate, capacity, ttl, intSize) ==
    LET count == ShardCountOf(shardCount)
    IN  [Type |-> "sharded_leaky_bucket", count |-> count, intSize |-> intSize,
         opts |-> [Key |-> key, ShardCount |-> shardCount, Rate |-> leakRate,
                  Capacity |-> capacity, TTL |-> ttl],
         shards |-> [i \in 0..(count - 1) |->
                        [Type |-> "leaky_bucket", Prefix |-> PrefixOf("leaky_bucket"),
                         Key |-> ShardKeyName(key, i), LeakRate |-> SharedRate(leakRate, count),
                         CapacityUnits |-> SharedCapacity(capacity, count), TTL |-> ttl]]]

NewShardedSlidingWindowLimiter(key, shardCount, window, limit, ttl, intSize) ==
    LET count == ShardCountOf(shardCount)
    IN  [Type |-> "sharded_sliding_window", count |-> count, intSize |-> intSize,
         opts |-> [Key |-> key, ShardCount |-> shardCount, Rate |-> window,
                  Capacity |-> limit, TTL |-> ttl],
         shards |-> [i \in 0..(count - 1) |->
                        [Type |-> "sliding_window", Prefix |-> PrefixOf("sliding_window"),
                         Key |-> ShardKeyName(key, i), Window |-> window,
                         Limit |-> SharedLimit(limit, count), TTL |-> ttl]]]

(* The single limiter NewTokenBucketLimiter(client, key, opts...) and its    *)
(* like build from the options a sharded limiter was given.                  *)
SingleOf(s) ==
    IF s.Type = "sharded_token_bucket"
    THEN [Type |-> "token_bucket", Prefix |-> PrefixOf("token_bucket"), Key |-> s.opts.Key,
          Rate |-> s.opts.Rate, CapacityUnits |-> s.opts.Capacity * Scale, TTL |-> s.opts.TTL]
    ELSE IF s.Type = "sharded_leaky_bucket"
    THEN [Type |-> "leaky_bucket", Prefix |-> PrefixOf("leaky_bucket"), Key |-> s.opts.Key,
          LeakRate |-> s.opts.Rate, CapacityUnits |-> s.opts.Capacity * Scale,
          TTL |-> s.opts.TTL]
    ELSE [Type |-> "sliding_window", Prefix |-> PrefixOf("sliding_window"), Key |-> s.opts.Key,
          Window |-> s.opts.Rate, Limit |-> s.opts.Capacity, TTL |-> s.opts.TTL]

(* The arguments the sharded limiters are built with: a rate every shard    *)
(* count divides, and budgets from one unit to one unit per shard.          *)
GlobalKeys == {<<"a", "p", "i">>, <<"{", "x", "}">>, <<"a", ":", "1">>}
SharedRates == {6000}
GlobalBudgets == {1, MaxShards}
SharedWindow == 2
SharedTTL == 2

ShardedWith(keys, shardCounts, budgets, intSizes) ==
    {NewShardedTokenBucketLimiter(k, c, r, b, SharedTTL, w) :
        k \in keys, c \in shardCounts, r \in SharedRates, b \in budgets, w \in intSizes}
    \cup
    {NewShardedLeakyBucketLimiter(k, c, r, b, SharedTTL, w) :
        k \in keys, c \in shardCounts, r \in SharedRates, b \in budgets, w \in intSizes}
    \cup
    {NewShardedSlidingWindowLimiter(k, c, SharedWindow, b, SharedTTL, w) :
        k \in keys, c \in shardCounts, b \in budgets, w \in intSizes}

(* The limiters whose calls are followed: one global key, 1 to MaxShards shards. *)
ShardedLimiters == ShardedWith({<<"a", "p", "i">>}, 1..MaxShards, GlobalBudgets, IntSizes)

LegacyLimiters ==
    {NewShardedRedisTokenBucket(r, MaxCapacity, s, SharedTTL) : r \in GlobalRates, s \in ShardCounts}

IsLegacy(l) == l.Type = "sharded_token"

(* s.count, l.shards *)
CountOf(l) == IF IsLegacy(l) THEN l.Shards ELSE l.count

---------------------------------------------------------------------------
(* SpecShard: one sharded limiter of one build, callers passing shardKeys.   *)
(* `calls` is the verdict of every call so far; `arg` is a single limiter of *)
(* the same options on its own keys, given the same calls, when count = 1.   *)

NoTwin == [on |-> FALSE]

InitShard ==
    /\ lim \in ShardedLimiters \cup LegacyLimiters
    /\ clock = 0
    /\ store = [i \in 0..(CountOf(lim) - 1) |->
                   EmptyStore(IF IsLegacy(lim) THEN lim ELSE lim.shards[i])]
    /\ last = NoCall
    /\ calls = <<>>
    /\ pc = "idle"
    /\ arg = IF ~IsLegacy(lim) /\ lim.count = 1
             THEN [on |-> TRUE, store |-> EmptyStore(SingleOf(lim)), calls |-> <<>>]
             ELSE NoTwin
    /\ res = "none"

(* idx := s.pick(shardKey); s.shards[idx]: an index below 0 panics *)
Panics(idx) == idx < 0

Routed(op, key, n, idx, r, state) ==
    [op |-> op, key |-> key, n |-> n, now |-> clock, idx |-> idx, panic |-> Panics(idx),
     ok |-> r.ok, err |-> r.err, state |-> state, pre |-> store]

Panicked == [ok |-> FALSE, err |-> TRUE]

TwinAfter(n) ==
    IF arg.on
    THEN LET t == AllowNOf(SingleOf(lim), arg.store, clock, n, clock)
         IN  [arg EXCEPT !.store = t.store,
                         !.calls = Append(@, [ok |-> t.ok, err |-> t.err])]
    ELSE arg

(* a variant of AllowN that runs the call on every shard *)
ShardedStoreAll(idx, n) ==
    [i \in DOMAIN store |-> AllowNOf(lim.shards[i], store[i], clock, n, clock).store]

(* AllowN changes the store of s.shards[idx] alone *)
ShardedStore(idx, n) ==
    [store EXCEPT ![idx] = AllowNOf(lim.shards[idx], store[idx], clock, n, clock).store]

(* ShardedXLimiter.Allow / AllowN: idx := s.pick(shardKey); s.shards[idx].AllowN(ctx, n) *)
ShAllowN(key, n) ==
    /\ ~IsLegacy(lim)
    /\ Len(calls) < MaxShardCalls
    /\ LET idx == Pick(key, lim.count, lim.intSize)
       IN  IF Panics(idx)
           THEN /\ last' = Routed("AllowN", key, n, idx, Panicked, ZeroState)
                /\ calls' = Append(calls, Panicked)
                /\ UNCHANGED <<store, arg>>
           ELSE LET r == AllowNOf(lim.shards[idx], store[idx], clock, n, clock)
                IN  /\ store' = ShardedStore(idx, n)
                    /\ last' = Routed("AllowN", key, n, idx, r, ZeroState)
                    /\ calls' = Append(calls, [ok |-> r.ok, err |-> r.err])
                    /\ arg' = TwinAfter(n)
    /\ UNCHANGED <<clock, lim, pc, res>>

(* ShardedXLimiter.Wait with maxWait = 0: one Allow on s.shards[idx]; a     *)
(* longer wait repeats that attempt on the same shard.                       *)
ShWait(key) ==
    /\ ~IsLegacy(lim)
    /\ Len(calls) < MaxShardCalls
    /\ LET idx == Pick(key, lim.count, lim.intSize)
       IN  IF Panics(idx)
           THEN /\ last' = Routed("Wait", key, 1, idx, Panicked, ZeroState)
                /\ calls' = Append(calls, Panicked)
                /\ UNCHANGED <<store, arg>>
           ELSE LET r == AllowNOf(lim.shards[idx], store[idx], clock, 1, clock)
                IN  /\ store' = ShardedStore(idx, 1)
                    /\ last' = Routed("Wait", key, 1, idx, r, ZeroState)
                    /\ calls' = Append(calls, [ok |-> r.ok, err |-> r.err])
                    /\ arg' = TwinAfter(1)
    /\ UNCHANGED <<clock, lim, pc, res>>

(* ShardedXLimiter.State: idx := s.pick(shardKey); s.shards[idx].State(ctx) *)
ShState(key) ==
    /\ ~IsLegacy(lim)
    /\ LET idx == Pick(key, lim.count, lim.intSize)
       IN  IF Panics(idx)
           THEN /\ last' = Routed("State", key, 0, idx, Panicked, ZeroState)
                /\ UNCHANGED store
           ELSE LET r == StateOf(lim.shards[idx], store[idx], clock, clock)
                IN  /\ store' = [store EXCEPT ![idx] = r.store]
                    /\ last' = Routed("State", key, 0, idx,
                                      [ok |-> FALSE, err |-> r.err # "nil"], r.state)
    /\ UNCHANGED <<clock, lim, calls, pc, arg, res>>

(* ShardedRedisTokenBucket.Allow: shardIdx := l.shardFor(shardKey), the keys *)
(* of that shard, the script                                                 *)
ShLegacyAllow(key) ==
    /\ IsLegacy(lim)
    /\ Len(calls) < MaxShardCalls
    /\ LET idx == ShardFor(key, lim.Shards, 64)
           r   == ShardedRedisTokenBucketAllowOver(lim, store[idx], clock, clock, Healthy)
       IN  /\ store' = [store EXCEPT ![idx] = r.store]
           /\ last' = Routed("AllowN", key, 1, idx, r, ZeroState)
           /\ calls' = Append(calls, [ok |-> r.ok, err |-> r.err])
    /\ UNCHANGED <<clock, lim, pc, arg, res>>

TickShard ==
    /\ clock < MaxShardTime
    /\ clock' = clock + 1
    /\ store' = [i \in DOMAIN store |-> Expired(store[i], clock + 1)]
    /\ arg' = IF arg.on THEN [arg EXCEPT !.store = Expired(@, clock + 1)] ELSE arg
    /\ UNCHANGED <<lim, last, calls, pc, res>>

NextShard ==
    \/ \E key \in ShardKeys, n \in {1, 2} : ShAllowN(key, n)
    \/ \E key \in ShardKeys : ShWait(key)
    \/ \E key \in ShardKeys : ShState(key)
    \/ \E key \in ShardKeys : ShLegacyAllow(key)
    \/ TickShard

SpecShard == InitShard /\ [][NextShard]_vars

---------------------------------------------------------------------------
WasRouted == last.op \in {"AllowN", "Wait", "State"}

(* C22: every sharded call addresses the shard whose index is the FNV-1a    *)
(* 32-bit hash of the shardKey bytes modulo the shard count, an index in    *)
(* [0, shardCount), the same for Allow, AllowN, Wait and State.             *)
C22_RoutingDeterminism ==
    WasRouted =>
        /\ ~last.panic
        /\ last.idx \in 0..(CountOf(lim) - 1)
        /\ last.idx = ModCount(Hashes[last.key], CountOf(lim))

---------------------------------------------------------------------------
(* SpecBuild: the sharded constructors, called with any of the global keys, *)
(* a shard count from -1 to MaxShards or the default itself, any budget.    *)

Unbuilt == [Type |-> "none"]

ShardCountArgs == (-1..MaxShards) \cup {DefaultShardCount}

InitBuild ==
    /\ lim = Unbuilt
    /\ clock = 0
    /\ store = <<>>
    /\ last = NoCall
    /\ calls = <<>>
    /\ pc = "idle"
    /\ arg = NoTwin
    /\ res = "none"

BuildToken(key, shardCount, rate, capacity, intSize) ==
    /\ lim' = NewShardedTokenBucketLimiter(key, shardCount, rate, capacity, SharedTTL, intSize)
    /\ UNCHANGED <<clock, store, last, calls, pc, arg, res>>

BuildLeaky(key, shardCount, leakRate, capacity, intSize) ==
    /\ lim' = NewShardedLeakyBucketLimiter(key, shardCount, leakRate, capacity, SharedTTL,
                                           intSize)
    /\ UNCHANGED <<clock, store, last, calls, pc, arg, res>>

BuildWindow(key, shardCount, limit, intSize) ==
    /\ lim' = NewShardedSlidingWindowLimiter(key, shardCount, SharedWindow, limit, SharedTTL,
                                             intSize)
    /\ UNCHANGED <<clock, store, last, calls, pc, arg, res>>

NextBuild ==
    \/ \E k \in GlobalKeys, c \in ShardCountArgs, r \in SharedRates, b \in GlobalBudgets,
          w \in IntSizes : BuildToken(k, c, r, b, w)
    \/ \E k \in GlobalKeys, c \in ShardCountArgs, r \in SharedRates, b \in GlobalBudgets,
          w \in IntSizes : BuildLeaky(k, c, r, b, w)
    \/ \E k \in GlobalKeys, c \in ShardCountArgs, b \in GlobalBudgets, w \in IntSizes :
          BuildWindow(k, c, b, w)

SpecBuild == InitBuild /\ [][NextBuild]_vars

Built == lim.Type # "none"

(* the number a sequence of decimal digits denotes *)
DigitValue(c) == CHOOSE d \in 0..9 : Digit(d) = c

RECURSIVE Atoi(_)
Atoi(ds) ==
    IF Len(ds) = 1 THEN DigitValue(ds[1])
    ELSE 10 * Atoi(SubSeq(ds, 1, Len(ds) - 1)) + DigitValue(ds[Len(ds)])

IsDecimal(ds) ==
    /\ Len(ds) >= 1
    /\ \A p \in 1..Len(ds) : \E d \in 0..9 : Digit(d) = ds[p]
    /\ Len(ds) > 1 => ds[1] # "0"

(* the text of a name from its first "{" to its last "}" *)
Positions(name, c) == {p \in 1..Len(name) : name[p] = c}

Braced(name) ==
    IF Positions(name, "{") = {} \/ Positions(name, "}") = {} THEN <<>>
    ELSE SubSeq(name,
                CHOOSE p \in Positions(name, "{") : \A q \in Positions(name, "{") : p <= q,
                CHOOSE p \in Positions(name, "}") : \A q \in Positions(name, "}") : p >= q)

ShardMarker == <<":", "s", "h", "a", "r", "d", ":">>

(* C23: the shards of a sharded limiter, 16 of them when the count asked for *)
(* is not positive, have the business keys "<globalKey>:shard:<i>"; store   *)
(* key names of different shards differ, and the two keys of one shard carry *)
(* the same braced segment {<globalKey>:shard:<i>}.                          *)
C23_ShardKeyNaming ==
    Built =>
        LET n     == IF lim.opts.ShardCount <= 0 THEN 16 ELSE lim.opts.ShardCount
            g     == lim.opts.Key
            names == [i \in DOMAIN lim.shards |-> StoreKeysOf(lim.shards[i])]
        IN  /\ lim.count = n
            /\ DOMAIN lim.shards = 0..(n - 1)
            /\ \A i \in 0..(n - 1) :
                  LET k    == lim.shards[i].Key
                      head == Len(g) + Len(ShardMarker)
                  IN  /\ Len(k) > head
                      /\ SubSeq(k, 1, Len(g)) = g
                      /\ SubSeq(k, Len(g) + 1, head) = ShardMarker
                      /\ IsDecimal(SubSeq(k, head + 1, Len(k)))
                      /\ Atoi(SubSeq(k, head + 1, Len(k))) = i
                      /\ names[i][1] # names[i][2]
                      /\ Braced(names[i][1]) = <<"{">> \o k \o <<"}">>
                      /\ Braced(names[i][2]) = <<"{">> \o k \o <<"}">>
            /\ \A i, j \in 0..(n - 1) :
                  i # j => \A a, b \in 1..2 : names[i][a] # names[j][b]

C23_Witness ==
    /\ Built
    /\ lim.opts.ShardCount <= 0
    /\ lim.count = 16
    /\ lim.shards[15].Key = lim.opts.Key \o ShardMarker \o <<"1", "5">>
    /\ lim.opts.Key = <<"{", "x", "}">>

---------------------------------------------------------------------------
FreshShard(i) == last.pre[i] = EmptyStore(lim.shards[i])

(* C24: every shard of a sharded token, leaky or sliding-window limiter has *)
(* a budget of at least 1 (Capacity >= 1, Limit >= 1), so the first Allow   *)
(* that reaches a fresh shard is admitted.                                  *)
C24_ShardBudgetFloor ==
    (WasRouted /\ ~IsLegacy(lim)) =>
        /\ \A i \in DOMAIN lim.shards :
              IF lim.Type = "sharded_sliding_window"
              THEN lim.shards[i].Limit >= 1
              ELSE lim.shards[i].CapacityUnits >= Scale
        /\ (last.op = "AllowN" /\ last.n = 1 /\ ~last.panic /\ FreshShard(last.idx))
              => last.ok

---------------------------------------------------------------------------
(* C25: a sharded limiter of one shard and the single limiter built from    *)
(* the same options, each on its own keys, give the same verdict to every   *)
(* call of the same sequence of Allow/AllowN calls with the same `now`,     *)
(* whatever shardKey is passed, and hold the same stored state.             *)
C25_OneShardIsSingle ==
    arg.on =>
        /\ arg.calls = calls
        /\ arg.store = store[0]

C25_Witness ==
    /\ arg.on
    /\ Len(calls) >= 2
    /\ calls[1].ok
    /\ ~calls[2].ok /\ ~calls[2].err
    /\ arg.calls = calls
    /\ last.op = "AllowN" /\ last.key = <<117, 55>> /\ last.idx = 0

---------------------------------------------------------------------------
(* C26: a sharded Allow, AllowN, Wait or State leaves the keys of every     *)
(* shard but the selected one as they were; its verdict, and the state it   *)
(* reports, are those of the selected shard on that shard's own keys.       *)
C26_ShardIsolation ==
    [][(last' # last /\ ~last'.panic) =>
          /\ \A j \in DOMAIN store : j # last'.idx => store'[j] = store[j]
          /\ (~IsLegacy(lim) /\ last'.op \in {"AllowN", "Wait"}) =>
                last'.ok = AllowNOf(lim.shards[last'.idx], store[last'.idx],
                                    clock, last'.n, clock).ok
          /\ (~IsLegacy(lim) /\ last'.op = "State") =>
                /\ last'.state = StateOf(lim.shards[last'.idx], store[last'.idx],
                                         clock, clock).state
                /\ store' = store]_vars

(* shard 0 cannot admit any more, and a key of shard 1 is admitted *)
C26_Witness ==
    /\ lim.Type = "sharded_token_bucket"
    /\ last.op = "AllowN" /\ last.ok /\ last.idx = 1
    /\ store[0]["tokens"].present
    /\ store[0]["tokens"].val < Scale
    /\ last.pre[0] = store[0]

---------------------------------------------------------------------------
(* SpecState: one single limiter, callers of AllowN on the store's clock,   *)
(* and one caller of State whose clock is arbitrary.  The two GETs of a     *)
(* token-bucket or leaky-bucket State are separate commands: time may pass  *)
(* and other callers may run between them.  `arg` holds what the first GET  *)
(* returned, `calls` the reports since the store last changed (the last two *)
(* at most).                                                                *)

(* tb.tokensKey(), l.bucketKey(): the key State reads first *)
FirstKey(l) == IF l.Type = "token_bucket" THEN "tokens" ELSE "bucket"

NoRead == [first |-> 0, seen |-> <<>>, held |-> {}]

(* the values the two keys of State hold together in the store st *)
Held(l, st) == [first |-> Get(st, FirstKey(l)), second |-> Get(st, "ts")]

(* the pairs the store has held since the first GET of a State call in progress *)
HeldSince(st) == IF pc = "ts" THEN [arg EXCEPT !.held = @ \cup {Held(lim, st)}] ELSE arg

Unread == [nil |-> TRUE, val |-> 0]

(* The limiters whose State is asked: every rate, capacity and window, the *)
(* shortest TTL.                                                          *)
StateTTL == 1

StateLimiters ==
    {NewTokenBucketLimiter(r, c, StateTTL) : r \in Rates, c \in Capacities}
    \cup {NewLeakyBucketLimiter(r, c, StateTTL) : r \in Rates, c \in Capacities}
    \cup {NewSlidingWindowLimiter(w, l, StateTTL) : w \in Windows, l \in Capacities}

InitState ==
    /\ lim \in StateLimiters
    /\ clock = 0
    /\ store = EmptyStore(lim)
    /\ last = NoCall
    /\ calls = <<>>
    /\ pc = "idle"
    /\ arg = NoRead
    /\ res = "none"

(* one finished State call: what it read, what it returned, whether the store *)
(* was the same at both reads                                                 *)
Reporting(now, first, second, r, seen) ==
    [op |-> "State", now |-> now, first |-> first, second |-> second, err |-> r.err,
     state |-> r.state, pre |-> store, quiet |-> seen = store,
     held |-> IF pc = "ts" THEN arg.held
              ELSE IF lim.Type = "sliding_window" THEN {}
              ELSE {Held(lim, store)}]

Latest(report) ==
    IF Len(calls) < 2 THEN Append(calls, report) ELSE <<calls[2], report>>

(* AllowN by any caller, also between the two reads of State *)
StAllowN(n) ==
    /\ lim.Type = "sliding_window" => GetOr(store, "seq", 0) < MaxSeq
    /\ LET r == AllowNOf(lim, store, clock, n, clock)
       IN  /\ store' = r.store
           /\ last' = [op |-> "AllowN", n |-> n, now |-> clock, ok |-> r.ok, err |-> r.err,
                       pre |-> store]
    /\ calls' = <<>>
    /\ arg' = HeldSince(store')
    /\ UNCHANGED <<clock, lim, pc, res>>

(* State up to its first GET: a missing key ends the call at once *)
StBegin(now) ==
    /\ pc = "idle"
    /\ lim.Type \in {"token_bucket", "leaky_bucket"}
    /\ LET first == Get(store, FirstKey(lim))
           r     == Reported(IF lim.Type = "token_bucket" THEN TokenBucketFull(lim, now)
                             ELSE LeakyBucketEmpty(lim, now), store)
           done  == Reporting(now, first, Unread, r, store)
       IN  IF first.nil
           THEN /\ last' = done
                /\ calls' = Latest(done)
                /\ UNCHANGED <<pc, arg>>
           ELSE /\ pc' = "ts"
                /\ arg' = [first |-> first.val, seen |-> store,
                            held |-> {Held(lim, store)}]
                /\ UNCHANGED <<last, calls>>
    /\ UNCHANGED <<clock, lim, store, res>>

(* State from its second GET on, at the `now` it reads after both *)
StFinish(now) ==
    /\ pc = "ts"
    /\ LET r    == IF lim.Type = "token_bucket"
                   THEN TokenBucketStateAfter(lim, arg.first, store, clock, now)
                   ELSE LeakyBucketStateAfter(lim, arg.first, store, clock, now)
           done == Reporting(now, [nil |-> FALSE, val |-> arg.first], Get(store, "ts"), r,
                             arg.seen)
       IN  /\ store' = r.store
           /\ last' = done
           /\ calls' = Latest(done)
    /\ pc' = "idle"
    /\ arg' = NoRead
    /\ UNCHANGED <<clock, lim, res>>

(* SingleSlidingWindowLimiter.State: one command *)
SwStateCall(now) ==
    /\ pc = "idle"
    /\ lim.Type = "sliding_window"
    /\ LET r    == SlidingWindowState(lim, store, clock, now)
           done == Reporting(now, Unread, Unread, r, store)
       IN  /\ store' = r.store
           /\ last' = done
           /\ calls' = Latest(done)
    /\ UNCHANGED <<clock, lim, pc, arg, res>>

TickState ==
    /\ clock < MaxClock
    /\ clock' = clock + 1
    /\ store' = Expired(store, clock + 1)
    /\ calls' = <<>>
    /\ arg' = HeldSince(store')
    /\ UNCHANGED <<lim, last, pc, res>>

NextState ==
    \/ \E n \in 1..MaxN : StAllowN(n)
    \/ \E now \in Nows : StBegin(now)
    \/ \E now \in Nows : StFinish(now)
    \/ \E now \in Nows : SwStateCall(now)
    \/ TickState

SpecState == InitState /\ [][NextState]_vars

Stated == last.op = "State"

(* C27: a token-bucket State that finds no tokens key returns, without      *)
(* error, Level = Remaining = Capacity, NextAvailableTime = LastUpdated =   *)
(* now and Type "token_bucket"; one that finds the tokens key but no ts key *)
(* returns the store's key-missing error and the zero state.                *)
C27_StateOnMissingKeys ==
    (Stated /\ IsToken) =>
        /\ last.first.nil =>
              /\ last.err = "nil"
              /\ last.state.Level = lim.Capacity * Scale
              /\ last.state.Remaining = lim.Capacity * Scale
              /\ last.state.Capacity = lim.Capacity * Scale
              /\ last.state.NextAvailableTime = last.now
              /\ last.state.LastUpdated = last.now
              /\ last.state.Type = "token_bucket"
        /\ (~last.first.nil /\ last.second.nil) =>
              /\ last.err = "redis.Nil"
              /\ last.state = ZeroState

C27_Witness ==
    /\ Stated /\ IsToken
    /\ ~last.first.nil /\ last.second.nil
    /\ last.err = "redis.Nil"
    /\ ~last.quiet

---------------------------------------------------------------------------
SameReport(a, b) ==
    /\ a.err = b.err
    /\ a.state.Type = b.state.Type
    /\ a.state.Capacity = b.state.Capacity
    /\ a.state.Rate = b.state.Rate
    /\ a.state.Key = b.state.Key
    /\ a.state.Level = b.state.Level
    /\ a.state.Remaining = b.state.Remaining

(* a step of a State call: one of its reads, or its return *)
StateStep == pc' # pc \/ (last' # last /\ last'.op = "State")

(* C28: a State call of any of the three single limiters changes no value,  *)
(* membership or expiry in the store, and two State calls in a row on an    *)
(* idle limiter (the store the same at every read of both), evaluated at    *)
(* the same `now`, report the same Type, Capacity, Rate, Key, Level and     *)
(* Remaining.                                                               *)
C28_StateReadOnly ==
    /\ []((Len(calls) = 2 /\ calls[1].quiet /\ calls[2].quiet /\ calls[1].now = calls[2].now)
             => SameReport(calls[1], calls[2]))
    /\ [][StateStep => store' = store]_vars

C28_Witness ==
    /\ Len(calls) = 2
    /\ calls[1].quiet /\ calls[2].quiet
    /\ calls[1].now = calls[2].now
    /\ IsLeaky
    /\ ~calls[2].first.nil /\ ~calls[2].second.nil
    /\ calls[2].state.Level > 0
    /\ calls[2].state.Level < calls[2].pre["bucket"].val
    /\ SameReport(calls[1], calls[2])

(* C29: with a store that does not change during the call, a token-bucket   *)
(* State reports Level = Remaining = min(Capacity, tokens + max(0, now -    *)
(* ts) * Rate / 1000), the balance the admission script computes at that    *)
(* `now`; so 0 <= Level <= Capacity, and Level >= 1 exactly when an Allow   *)
(* evaluated at that `now` is admitted.                                     *)
C29_StateAgreesWithScript ==
    (Stated /\ IsToken /\ last.quiet) =>
        LET capacity == lim.Capacity * Scale
            stored   == IF last.pre["tokens"].present
                        THEN Min(capacity, last.pre["tokens"].val
                                           + Max(0, last.now - last.pre["ts"].val) * lim.Rate)
                        ELSE capacity
        IN  /\ last.err = "nil"
            /\ last.state.Level = stored
            /\ last.state.Remaining = stored
            /\ last.state.Level = TbRefilled(last.pre, last.now, lim.Rate, capacity)
            /\ 0 <= last.state.Level /\ last.state.Level <= capacity
            /\ (last.state.Level >= Scale)
                  <=> TokenBucketAllow(lim, last.pre, last.now, last.now).ok

C29_Witness ==
    /\ Stated /\ IsToken /\ last.quiet
    /\ last.pre["tokens"].present
    /\ last.now > last.pre["ts"].val
    /\ last.state.Level > last.pre["tokens"].val
    /\ last.state.Level < Scale
    /\ ~TokenBucketAllow(lim, last.pre, last.now, last.now).ok

---------------------------------------------------------------------------
(* C30: a ShardedRedisTokenBucket.Allow that is denied leaves the tokens and *)
(* ts keys of the shard as they were, values and expiry times.               *)
C30_LegacyDeniedNoWrite ==
    (CalledNow /\ IsSharded /\ last.fault = "none" /\ ~last.ok /\ ~last.err) =>
        store = last.pre

---------------------------------------------------------------------------
(* Sliding window: the members of the log. *)

Members(st) == {e.member : e \in st["log"].val}

(* the member "<now>-<seq>" an admission at `now` adds to the store st *)
NextMember(st, now) == <<now, GetOr(st, "seq", 0) + 1>>

(* C31: sliding window: an admission never adds a member "<now>-<seq>"   *)
(* that the log already holds, also when several admissions carry the     *)
(* same `now` and when the keys have expired in between; the log after    *)
(* the admission holds exactly one entry more than the purged log, and    *)
(* the members of the log are pairwise distinct.                          *)
C31_MemberUnique ==
    IsWindow =>
        /\ Cardinality(Members(store)) = ZCard(store)
        /\ Admitted =>
              /\ NextMember(last.pre, last.now) \notin Members(last.pre)
              /\ NextMember(last.pre, last.now) \in Members(store)
              /\ ZCard(store) = ZCard(SwPurged(last.pre, last.now, lim.Window)) + 1

(* An admission on a log that already holds an entry of the same `now`, *)
(* at a store time by which every key of the first TTL has expired.     *)
C31_Witness ==
    /\ IsWindow /\ Admitted
    /\ \E e \in last.pre["log"].val : e.score = last.now
    /\ clock > lim.TTL
    /\ ZCard(store) >= 2

---------------------------------------------------------------------------
(* C32: sliding window: with a store that does not change during the call, *)
(* the Level State reports at `now` is the number of entries the admission *)
(* script counts after its purge at that `now`, and Remaining > 0 exactly   *)
(* when an Allow evaluated at that `now` is admitted, also when an entry's  *)
(* score is exactly now - Window.                                           *)
C32_WindowStateAgrees ==
    (Stated /\ IsWindow) =>
        /\ last.state.Level = ZCard(SwPurged(last.pre, last.now, lim.Window))
        /\ (last.state.Remaining > 0)
              <=> SlidingWindowAllow(lim, last.pre, clock, last.now).ok

---------------------------------------------------------------------------
(* C33: leaky bucket: with a store that does not change during the call, a *)
(* State that reports NextAvailableTime = now is followed by an admitted   *)
(* Allow at that `now`, and whenever an Allow at that `now` is denied,     *)
(* State reports a NextAvailableTime later than now.                       *)
C33_LeakyStatePredicts ==
    (Stated /\ IsLeaky /\ last.quiet) =>
        LET allowed == LeakyBucketAllow(lim, last.pre, clock, last.now).ok
        IN  /\ (last.state.NextAvailableTime = last.now) => allowed
            /\ ~allowed => (last.state.NextAvailableTime > last.now)

---------------------------------------------------------------------------
(* The admitted calls whose timestamp lies in [t1, t2]. *)
AdmittedBetween(t1, t2) ==
    {i \in 1..Len(calls) : calls[i].ok /\ t1 <= calls[i].now /\ calls[i].now <= t2}

(* at most Capacity + Rate * (t2 - t1) / 1000 admissions in every [t1, t2] *)
RateBounded ==
    \A t1, t2 \in 0..MaxTime :
        t1 <= t2 =>
            Cardinality(AdmittedBetween(t1, t2)) * Scale
                <= lim.Capacity * Scale + lim.Rate * (t2 - t1)

(* two calls in a row, both admitted, further apart than the TTL: the keys *)
(* had expired in between                                                  *)
AdmittedAcrossExpiry ==
    \E i \in 1..(Len(calls) - 1) :
        /\ calls[i].ok /\ calls[i + 1].ok
        /\ calls[i + 1].now > calls[i].now + lim.TTL

(* C34 as stated: token bucket, calls with non-decreasing `now`, every Rate, *)
(* Capacity and TTL, key expiry included: the calls admitted in any interval *)
(* [t1, t2] number at most Capacity + Rate * (t2 - t1) / 1000.               *)
C34_RateBound == IsToken => RateBounded

(* C34 (amended): the same for a limiter whose TTL is at least the time a *)
(* whole bucket takes to refill (TTL * Rate / 1000 >= Capacity).          *)
C34_RateBoundWithinTTL ==
    (IsToken /\ lim.TTL * lim.Rate >= lim.Capacity * Scale) => RateBounded

(* Such a limiter, an interval longer than an instant that is used up to *)
(* the bound, and an admission after the keys had expired.               *)
C34_Witness ==
    /\ IsToken /\ lim.TTL * lim.Rate >= lim.Capacity * Scale
    /\ AdmittedAcrossExpiry
    /\ \E t1, t2 \in 0..MaxTime :
          /\ t1 < t2
          /\ Cardinality(AdmittedBetween(t1, t2)) * Scale
                = lim.Capacity * Scale + lim.Rate * (t2 - t1)

---------------------------------------------------------------------------
(* SpecSample: callers on one token-bucket key, each reading the shared    *)
(* clock for its own `now` before its script reaches the store, call after *)
(* call.  A request may wait in flight while time passes and other         *)
(* requests, sampled later, run first.  `calls` lists the requests in the  *)
(* order the store ran them; `last` keeps the time of first use.           *)

Samplers == {1, 2}

InitSample ==
    /\ clock = 0
    /\ lim \in TokenBuckets
    /\ store = EmptyStore(lim)
    /\ last = NoCall
    /\ calls = <<>>
    /\ pc = [c \in Samplers |-> "idle"]
    /\ arg = [c \in Samplers |-> 0]
    /\ res = [c \in Samplers |-> FALSE]

InFlight == {c \in Samplers : pc[c] = "flying"}

(* nowMs := float64(time.Now().UnixNano() / 1e6), read on the client *)
Sample(c) ==
    /\ pc[c] = "idle"
    /\ Len(calls) + Cardinality(InFlight) < MaxSamples
    /\ arg' = [arg EXCEPT ![c] = clock]
    /\ pc' = [pc EXCEPT ![c] = "flying"]
    /\ last' = IF last = NoCall THEN [op |-> "first", now |-> clock] ELSE last
    /\ UNCHANGED <<clock, lim, store, calls, res>>

(* tokenBucketScript.Run(...).Result(): the script runs at the store, whole, *)
(* with the `now` its caller sampled; the caller is free to call again.      *)
RunSampled(c) ==
    /\ pc[c] = "flying"
    /\ LET r == TokenBucketAllowN(lim, store, clock, 1, arg[c])
       IN  /\ store' = r.store
           /\ calls' = Recorded(arg[c], r)
           /\ res' = [res EXCEPT ![c] = r.ok]
    /\ pc' = [pc EXCEPT ![c] = "idle"]
    /\ UNCHANGED <<clock, lim, last, arg>>

TickSample ==
    /\ clock < MaxClock
    /\ clock' = clock + 1
    /\ store' = Expired(store, clock + 1)
    /\ UNCHANGED <<lim, last, calls, pc, arg, res>>

NextSample ==
    \/ \E c \in Samplers : Sample(c)
    \/ \E c \in Samplers : RunSampled(c)
    \/ TickSample

SpecSample == InitSample /\ [][NextSample]_vars

(* the requests admitted so far *)
AdmittedSoFar == {i \in 1..Len(calls) : calls[i].ok}

(* C35: callers that sample `now` from one monotonic clock before their     *)
(* scripts run, in any order of arrival at the store: the Allow calls       *)
(* admitted on one token-bucket key by real time T number at most           *)
(* Capacity + Rate * (T - T0) / 1000, T0 the time of first use.  Stated for *)
(* a limiter whose TTL is at least the time a whole bucket takes to refill, *)
(* so that no admission is owed to an expired key.                          *)
C35_SampledRateBound ==
    (last # NoCall /\ lim.TTL * lim.Rate >= lim.Capacity * Scale) =>
        Cardinality(AdmittedSoFar) * Scale
            <= lim.Capacity * Scale + lim.Rate * (clock - last.now)

---------------------------------------------------------------------------
(* SpecTTL: limiters built with a TTL option.  A time.Duration is counted  *)
(* here in microseconds; the option functions keep any duration above     *)
(* zero, and AllowN hands the script the duration's whole milliseconds.    *)

(* microseconds in a millisecond *)
Millisecond == 1000

(* d.Milliseconds(): the whole milliseconds of a duration *)
Milliseconds(d) == d \div Millisecond

(* TTL: 2 * time.Second (token bucket, leaky bucket), 2 * time.Minute *)
(* (sliding window)                                                   *)
DefaultTTL(type) ==
    IF type = "sliding_window" THEN 120000 * Millisecond ELSE 2000 * Millisecond

(* WithTokenBucketTTL, WithLeakyBucketTTL, WithSlidingWindowTTL: *)
(* if ttl > 0 { l.TTL = ttl }                                    *)
WithTTL(l, ttl) == IF ttl > 0 THEN [l EXCEPT !.TTL = ttl] ELSE l

(* the durations passed to the option: none kept, one microsecond (as in *)
(* the sharded sliding-window example), just under and just at one       *)
(* millisecond, two and a half milliseconds                              *)
TTLArgs == {0, 1, 999, 1000, 2500}

TTLLimiters ==
    {WithTTL(NewTokenBucketLimiter(r, c, DefaultTTL("token_bucket")), d) :
        r \in Rates, c \in Capacities, d \in TTLArgs}
    \cup {WithTTL(NewLeakyBucketLimiter(r, c, DefaultTTL("leaky_bucket")), d) :
        r \in Rates, c \in Capacities, d \in TTLArgs}
    \cup {WithTTL(NewSlidingWindowLimiter(w, c, DefaultTTL("sliding_window")), d) :
        w \in Windows, c \in Capacities, d \in TTLArgs}

(* ttlMs := l.TTL.Milliseconds(): the limiter as its script sees it *)
ScriptArgs(l) == [l EXCEPT !.TTL = Milliseconds(l.TTL)]

(* SET key value PX ttl is an error reply for a ttl that is not positive *)
SetFails(ttl) == ttl <= 0

(* AllowN of a limiter whose TTL is a duration: the script of the token and *)
(* the leaky bucket fails at its first SET when the ttl is not positive,    *)
(* before anything is written, and Run(...).Result() returns that error;    *)
(* the sliding window's PEXPIRE with such a ttl deletes the key.            *)
AllowNWithTTL(l, st, clk, n, now) ==
    LET a == ScriptArgs(l)
        r == AllowNOf(a, st, clk, n, now)
    IN  IF l.Type # "sliding_window" /\ r.ok /\ SetFails(a.TTL)
        THEN Refused(st)
        ELSE r

InitTTL ==
    /\ lim \in TTLLimiters
    /\ Idle

TtlAllowN(n) ==
    /\ lim.Type = "sliding_window" => GetOr(store, "seq", 0) < MaxSeq
    /\ LET r == AllowNWithTTL(lim, store, clock, n, clock)
       IN  /\ store' = r.store
           /\ last' = [op |-> "AllowN", n |-> n, now |-> clock,
                       ttl |-> Milliseconds(lim.TTL), ok |-> r.ok, err |-> r.err,
                       pre |-> store]
    /\ UNCHANGED <<clock, lim, calls, pc, arg, res>>

TickTTL ==
    /\ clock < MaxClock
    /\ clock' = clock + 1
    /\ store' = Expired(store, clock + 1)
    /\ last' = NoCall
    /\ UNCHANGED <<lim, calls, pc, arg, res>>

NextTTL ==
    \/ \E n \in 1..MaxN : TtlAllowN(n)
    \/ TickTTL

SpecTTL == InitTTL /\ [][NextTTL]_vars

(* C36: for every limiter built through the TTL options, the ttl handed to *)
(* the admission script is at least 1 ms, the script does not fail on it,   *)
(* and the keys an admission wrote are present right after it, for an       *)
(* Allow issued at the same millisecond.                                    *)
C36_ScriptTTLPositive ==
    (last.op = "AllowN" /\ (lim.Type = "sliding_window" => last.n = 1)) =>
        /\ last.ttl >= 1
        /\ ~last.err
        /\ last.ok => \A k \in KeysOf(lim) : store[k].present

---------------------------------------------------------------------------
(* C37: a token-bucket State call that runs while other callers' Allow calls *)
(* and the expiry of the keys change the store returns a nil error, and the  *)
(* (tokens, ts) pair its Level is computed from is a pair the store held     *)
(* together at some moment between its first read and its return.            *)
C37_StateSnapshot ==
    (Stated /\ IsToken) =>
        /\ last.err = "nil"
        /\ [first |-> last.first, second |-> last.second] \in last.held
              \/ (last.first.nil /\ \E h \in last.held : h.first.nil)

---------------------------------------------------------------------------
(* SpecWaitStore: one caller's Wait on a single limiter over the store.     *)
(* Before the call, earlier Allow calls and the passage of time leave the   *)
(* keys in some state.  Each Allow of the loop is a round trip: the client  *)
(* reads the clock (WsSend), time may pass, the script runs with that `now` *)
(* and the answer comes back (WsReturn).  Keys expire as time passes.       *)
(*   pc:    as in SpecWait, and "flying" while an Allow is under way.       *)
(*   arg:   as in SpecWait, and nowMs (the `now` of the Allow under way),   *)
(*          start (the time Wait was entered), entry (the store then).      *)
(*   calls: the Allow calls of the loop: `now`, verdict, the time the       *)
(*          answer came back, the store before and after.                   *)

WsWaits == {-1, 0, 1, MaxWsWait}
WsHorizon == MaxIdle + MaxWsWait + 2

(* a TTL no key outlives in these runs, and one that outlasts them *)
WsTTLs == {2, WsHorizon}

WsLimiters ==
    {NewTokenBucketLimiter(500, 1, t) : t \in WsTTLs}
        \cup {NewLeakyBucketLimiter(500, 1, t) : t \in WsTTLs}
        \cup {NewSlidingWindowLimiter(2, 1, t) : t \in WsTTLs}

(* the transports of an Allow of the loop: the reply is the script's, or the *)
(* command fails before or after the script ran                              *)
WsTransports == {t \in Transports : t.fault # "other"}

AllowNOfOver(l, st, clk, n, now, via) ==
    IF l.Type = "token_bucket" THEN TokenBucketAllowNOver(l, st, clk, n, now, via)
    ELSE IF l.Type = "leaky_bucket" THEN LeakyBucketAllowNOver(l, st, clk, n, now, via)
    ELSE SlidingWindowAllowNOver(l, st, clk, n, now, via)

InitWaitStore ==
    /\ clock = 0
    /\ lim \in WsLimiters
    /\ store = EmptyStore(lim)
    /\ last = NotCancelled
    /\ calls = <<>>
    /\ pc = "idle"
    /\ arg = [asked |-> 0, maxWait |-> 0, deadline |-> 0, now |-> 0,
              sleep |-> 0, fireAt |-> 0, sleeps |-> 0,
              nowMs |-> 0, start |-> 0, entry |-> EmptyStore(lim)]
    /\ res = "none"

(* an Allow that is over before Wait is entered *)
WsEarlier ==
    /\ pc = "idle"
    /\ store' = AllowNOf(lim, store, clock, 1, clock).store
    /\ UNCHANGED <<clock, lim, last, calls, pc, arg, res>>

(* maxWait = max(maxWait, 0); deadline := time.Now().Add(maxWait) *)
WsEnter(maxWait) ==
    /\ pc = "idle"
    /\ arg' = [arg EXCEPT !.asked = maxWait, !.maxWait = Max(maxWait, 0),
                          !.deadline = clock + Max(maxWait, 0),
                          !.start = clock, !.entry = store]
    /\ pc' = "allow"
    /\ UNCHANGED <<clock, lim, store, last, calls, res>>

(* Allow -> AllowN: nowMs := float64(time.Now().UnixNano() / 1e6) *)
WsSend ==
    /\ pc = "allow"
    /\ Len(calls) < MaxAllows
    /\ arg' = [arg EXCEPT !.nowMs = clock]
    /\ pc' = "flying"
    /\ UNCHANGED <<clock, lim, store, last, calls, res>>

(* the script runs, ok, err := Allow(ctx) returns, and the tests that follow *)
(* it, up to now := time.Now(); if now.After(deadline) { return ErrTimeout } *)
WsReturn(via) ==
    /\ pc = "flying"
    /\ LET r == AllowNOfOver(lim, store, clock, 1, arg.nowMs, via)
           a == AfterAllow(lim, r, arg.maxWait)
       IN  /\ store' = r.store
           /\ calls' = Append(calls, [now |-> arg.nowMs, ok |-> r.ok, err |-> r.err,
                                      kind |-> r.kind, back |-> clock,
                                      pre |-> store, post |-> r.store])
           /\ IF a.pc = "done"
              THEN /\ pc' = "done"
                   /\ res' = a.res
                   /\ arg' = arg
              ELSE /\ arg' = [arg EXCEPT !.now = clock]
                   /\ IF After(clock, arg.deadline)
                      THEN pc' = "done" /\ res' = "ErrTimeout"
                      ELSE pc' = "until" /\ res' = res
    /\ UNCHANGED <<clock, lim, last>>

(* Time passes: keys past their expiry time are gone, a Wait blocked in its *)
(* select whose timer expires is woken by timer.C.                          *)
WsTick ==
    /\ pc = "idle" => clock < MaxIdle
    /\ pc # "done"
    /\ clock < WsHorizon
    /\ clock' = clock + 1
    /\ store' = Expired(store, clock + 1)
    /\ pc' = IF pc = "select" /\ clock + 1 >= arg.fireAt THEN "allow" ELSE pc
    /\ UNCHANGED <<lim, last, calls, arg, res>>

NextWaitStore ==
    \/ WsEarlier
    \/ \E m \in WsWaits : WsEnter(m)
    \/ WsSend
    \/ \E via \in WsTransports : WsReturn(via)
    \/ WaitSleep
    \/ WaitCtxDone
    \/ Cancel
    \/ WsTick

SpecWaitStore == InitWaitStore /\ [][NextWaitStore]_vars

---------------------------------------------------------------------------
(* What one Allow of the loop did to the store. *)

(* the call took exactly one unit: one token off the refilled balance, one *)
(* unit of water on the drained level, one entry more in the purged log    *)
OneUnit(l, c) ==
    IF l.Type = "token_bucket"
    THEN /\ c.post["tokens"].present
         /\ c.post["tokens"].val
               = TbRefilled(c.pre, c.now, l.Rate, CapacityUnits(l)) - Scale
    ELSE IF l.Type = "leaky_bucket"
    THEN /\ c.post["bucket"].present
         /\ c.post["bucket"].val = LbDrained(c.pre, c.now, l.LeakRate) + Scale
    ELSE LET purged == SwPurged(c.pre, c.now, l.Window)["log"].val
         IN  /\ purged \subseteq c.post["log"].val
             /\ Cardinality(c.post["log"].val) = Cardinality(purged) + 1

(* the call took nothing: both keys as they were, or the log purged only *)
NoUnit(l, c) ==
    IF l.Type = "sliding_window"
    THEN c.post = SwPurged(c.pre, c.now, l.Window)
    ELSE c.post = c.pre

---------------------------------------------------------------------------
(* Token-bucket Wait on a bucket emptied before the call. *)

(* the bucket was empty when Wait was entered, its last admission at EmptiedAt *)
EnteredEmpty ==
    /\ arg.entry["tokens"].present /\ arg.entry["tokens"].val = 0
    /\ arg.entry["ts"].present /\ arg.entry["ts"].val <= arg.start

EmptiedAt == arg.entry["ts"].val

(* a whole token has refilled by time t: (t - EmptiedAt) * Rate / 1000 >= 1 *)
TokenBy(t) == (t - EmptiedAt) * lim.Rate >= Scale

(* one caller, no store error, no cancellation *)
Undisturbed == ~last.cancelled /\ \A i \in 1..Len(calls) : ~calls[i].err

(* C39 as stated: a token-bucket Wait(maxWait) entered at s on a bucket    *)
(* emptied at t <= s, one caller, no store error, no cancellation, returns *)
(* nil whenever a whole token has refilled by the deadline s + maxWait,    *)
(* however long each Allow round trip takes.                               *)
C39_WaitGetsRefilledToken ==
    (WaitOver /\ IsToken /\ Undisturbed /\ EnteredEmpty /\ TokenBy(arg.deadline)) =>
        res = "nil"

(* C39 (amended): the same, provided every Allow that reads its `now`   *)
(* before the token has refilled is back no later than the deadline.    *)
C39_WaitGetsRefilledTokenInTime ==
    (/\ WaitOver /\ IsToken /\ Undisturbed /\ EnteredEmpty /\ TokenBy(arg.deadline)
     /\ \A i \in 1..Len(calls) : ~TokenBy(calls[i].now) => calls[i].back <= arg.deadline) =>
        res = "nil"

(* A Wait whose first Allow read the clock too early, took time, was back *)
(* before the deadline, and whose second Allow, sent after the sleep and  *)
(* back after the deadline, was admitted; no key expired meanwhile.       *)
C39_Witness ==
    /\ WaitOver /\ IsToken /\ Undisturbed /\ EnteredEmpty /\ TokenBy(arg.deadline)
    /\ lim.TTL = WsHorizon
    /\ res = "nil"
    /\ Len(calls) = 2
    /\ ~TokenBy(calls[1].now) /\ ~calls[1].ok
    /\ calls[1].back > calls[1].now /\ calls[1].back <= arg.deadline
    /\ calls[2].ok /\ calls[2].back > arg.deadline

---------------------------------------------------------------------------
(* SimpleRedisRemainder: a fixed-window counter.  Time is in seconds here.  *)
(* The counter of window k lives under its own key "...:{key}:<k>"; `store` *)
(* maps k to that key.  `calls` lists the Push calls: time and outcome.     *)

(* const defaultRedisLimiterKeyExpire = 2 * time.Second *)
defaultRedisLimiterKeyExpire == 2

NewSimpleRedisRemainder(window, count) ==
    [Type |-> "remainder", Window |-> window, Count |-> count]

Remainders ==
    {NewSimpleRedisRemainder(w, c) : w \in 1..MaxRemWindow, c \in Capacities}

(* buildKey: windowIndex := time.Now().Unix() / s.Window *)
BuildKey(l, now) == now \div l.Window

WindowIndexes == 0..MaxRemTime

(* pipe.IncrBy(ctx, key, count): a missing key counts from 0 and has no expiry *)
IncrBy(st, k, count, clk) ==
    IF st[k].present THEN [st EXCEPT ![k].val = @ + count]
    ELSE [st EXCEPT ![k] = Entry(count, clk)]

(* pipe.Expire(ctx, key, defaultRedisLimiterKeyExpire) *)
Expire(st, k, clk, ttl) ==
    IF st[k].present THEN [st EXCEPT ![k].exp = clk + ttl] ELSE st

(* Push: TxPipeline of IncrBy and Expire; ErrLimiter if incr.Val() > s.Count *)
RemainderPush(l, st, clk, count, now) ==
    LET key    == BuildKey(l, now)
        incred == IncrBy(st, key, count, clk)
        after  == Expire(incred, key, clk, defaultRedisLimiterKeyExpire)
    IN  [err |-> IF incred[key].val > l.Count THEN "ErrLimiter" ELSE "nil",
         store |-> after]

(* Available: Get; redis.Nil -> nil; count >= s.Count -> ErrLimiter; *)
(* otherwise Expire and nil                                          *)
RemainderAvailable(l, st, clk, now) ==
    LET key == BuildKey(l, now)
    IN  IF ~st[key].present THEN [err |-> "nil", store |-> st]
        ELSE IF st[key].val >= l.Count THEN [err |-> "ErrLimiter", store |-> st]
        ELSE [err |-> "nil",
              store |-> Expire(st, key, clk, defaultRedisLimiterKeyExpire)]

(* the counters at time clk: a key lives while clk <= its expiry time *)
ExpiredCounters(st, clk) ==
    [k \in DOMAIN st |->
        IF st[k].present /\ st[k].exp < clk THEN Absent("counter") ELSE st[k]]

InitRemainder ==
    /\ clock = 0
    /\ lim \in Remainders
    /\ store = [k \in WindowIndexes |-> Absent("counter")]
    /\ last = NoCall
    /\ calls = <<>>
    /\ pc = <<>>
    /\ arg = <<>>
    /\ res = <<>>

Push ==
    /\ Len(calls) < MaxPushes
    /\ LET r == RemainderPush(lim, store, clock, 1, clock)
       IN  /\ store' = r.store
           /\ calls' = Append(calls, [now |-> clock, ok |-> r.err = "nil"])
           /\ last' = [op |-> "Push", now |-> clock, err |-> r.err, pre |-> store]
    /\ UNCHANGED <<clock, lim, pc, arg, res>>

Available ==
    /\ LET r == RemainderAvailable(lim, store, clock, clock)
       IN  /\ store' = r.store
           /\ last' = [op |-> "Available", now |-> clock, err |-> r.err, pre |-> store]
    /\ UNCHANGED <<clock, lim, calls, pc, arg, res>>

TickRemainder ==
    /\ clock < MaxRemTime
    /\ clock' = clock + 1
    /\ store' = ExpiredCounters(store, clock + 1)
    /\ last' = NoCall
    /\ UNCHANGED <<lim, calls, pc, arg, res>>

NextRemainder ==
    \/ Push
    \/ Available
    \/ TickRemainder

SpecRemainder == InitRemainder /\ [][NextRemainder]_vars

(* the Push calls of window k that returned nil *)
PushedIn(k) == {i \in 1..Len(calls) : calls[i].ok /\ BuildKey(lim, calls[i].now) = k}

(* C40: SimpleRedisRemainder with any window W >= 1 s and limit Count: in *)
(* every fixed window [k*W, (k+1)*W) at most Count calls of Push(ctx, 1)  *)
(* return nil, however the calls are spaced.                              *)
C40_WindowWithinCount ==
    \A k \in WindowIndexes : Cardinality(PushedIn(k)) <= lim.Count

====
